---- MODULE Spec2Model ----
(***************************************************************************)
(* Doc-Signer: the HTML sanitizer (src/lib/sanitization.ts), the PDF       *)
(* signer (src/lib/services/pdf-signer.ts, src/app/actions/sign-pdf.ts),   *)
(* the file storage, the PDF generator                                     *)
(* (src/lib/services/pdf-generator.ts), the document parser                *)
(* (src/lib/services/document-parser.ts), the rate limiter of the          *)
(* middleware and the workflow reducer (src/hooks/useEditor.ts).  Each     *)
(* part has its own specification over the same variables: Spec and        *)
(* SpecCalls for the sanitizer, SpecSign, SpecStorage, SpecGenerate,       *)
(* SpecParser, SpecLimiter and SpecWindow, SpecWorkflow.                   *)
(*                                                                         *)
(* An HTML string is a sequence of tokens: a start tag with its           *)
(* attributes, an end tag, one character of text, or a comment.  Tags are  *)
(* atomic tokens, text is kept character by character, so the regular      *)
(* expressions of normalizeHtml act on the token sequence as they act on   *)
(* the string.                                                             *)
(*                                                                         *)
(* sanitizeHtml hands the string to purify.sanitize (DOMPurify) with the   *)
(* configuration of lines 100-107.  What that call does is modelled here   *)
(* by its three stages: the DOMParser builds the document (Parse), the     *)
(* node iterator walks the body and removes what the configuration does    *)
(* not allow, recording each removal in purify.removed (Purify), and the   *)
(* body is serialized again.  A DOM subtree is held as the well-nested     *)
(* token sequence that serializes it, so serialization is the identity on  *)
(* that sequence and parsing is what maps an arbitrary token sequence to a *)
(* well-nested one.                                                        *)
(***************************************************************************)
EXTENDS Integers, Sequences, FiniteSets, TLC

VARIABLES
    html,      \* the string the next call is applied to
    removed,   \* purify.removed of the module-level purifier
    call,      \* the last call: operation, options and what it produced
    action,    \* signPdfAction: its arguments, position and result
    sign,      \* sign: its arguments, position, console and result
    pdfDoc,    \* the document pdf-lib holds in memory during sign
    storage,   \* the files of the storage directory
    reader,    \* what readFile calls of other requests found in it
    generate,  \* generate: its position, the calls it made and its result
    browser,   \* the browser instance generate launched
    parser,    \* validateFile and parseDocx: arguments, position and result
    rateLimitMap, \* the middleware's map from IP to { count, lastReset }
    now,       \* Date.now()
    response,  \* the last request the middleware saw and its answer
    admitted,  \* the rate-limited requests admitted less than a window ago
    workflow   \* workflowReducer: the state, the last action, the state before
               \* it and the steps visited since the last upload state

vars == <<html, removed, call, action, sign, pdfDoc, storage, reader, generate, browser,
          parser, rateLimitMap, now, response, admitted, workflow>>

\* What the sanitizer calls, the signing and the rendering leave alone.
signVars == <<action, sign, pdfDoc, storage, reader>>
generateVars == <<generate, browser>>
sanitizeVars == <<html, removed, call>>
parserVars == <<parser>>
limiterVars == <<rateLimitMap, now, response, admitted>>
workflowVars == <<workflow>>

\* The value of a property that is not there (item.attribute, node.tagName).
Undefined == "undefined"

-----------------------------------------------------------------------------
(* Tokens *)

Attr(name, val) == [name |-> name, val |-> val]

Tok(k, tag, attrs) == [k |-> k, tag |-> tag, attrs |-> attrs]

Open(tag, attrs) == Tok("open", tag, attrs)
Close(tag) == Tok("close", tag, <<>>)
Text(ch) == Tok("text", ch, <<>>)
Comment == Tok("comment", "#comment", <<>>)

\* \s of a JavaScript regular expression and of String.prototype.trim, as far
\* as the characters of the model go.
Whitespace == {" ", "\t", "\r", "\n"}

IsWs(t) == t.k = "text" /\ t.tag \in Whitespace

Last(s) == s[Len(s)]
Front(s) == SubSeq(s, 1, Len(s) - 1)

-----------------------------------------------------------------------------
(* The schema of the sanitizer *)

ALLOWED_TAGS ==
    { "html", "head", "body", "main", "article", "section", "nav", "aside",
      "header", "footer", "div", "span",
      "h1", "h2", "h3", "h4", "h5", "h6",
      "p", "br", "hr",
      "strong", "b", "em", "i", "u", "s", "sub", "sup", "mark", "small",
      "blockquote", "q", "cite", "code", "pre", "kbd", "samp",
      "ul", "ol", "li", "dl", "dt", "dd",
      "table", "caption", "thead", "tbody", "tfoot", "tr", "th", "td",
      "colgroup", "col",
      "img", "figure", "figcaption",
      "a" }

ALLOWED_ATTR ==
    { "id", "class", "lang", "dir", "title",
      "href", "target", "rel", "name",
      "src", "alt", "width", "height",
      "colspan", "rowspan", "scope", "headers",
      "start", "type", "value" }

\* The sanitizer configured to drop the content of every removed element.
KEEP_CONTENT_Off == FALSE

KEEP_CONTENT == TRUE

\* The configuration sets neither FORBID_CONTENTS, ALLOW_DATA_ATTR nor
\* ALLOW_ARIA_ATTR, so the purifier runs with its defaults for them.
\* A purifier that keeps the content of every removed element, a script's too.
FORBID_CONTENTS_None == {}

FORBID_CONTENTS ==
    { "annotation-xml", "audio", "colgroup", "desc", "foreignobject", "head",
      "iframe", "math", "mi", "mn", "mo", "ms", "mtext", "noembed",
      "noframes", "noscript", "plaintext", "script", "style", "svg",
      "template", "thead", "title", "video", "xmp" }

ALLOW_DATA_ATTR == TRUE
ALLOW_ARIA_ATTR == TRUE

\* Attribute names of the model that match the purifier's DATA_ATTR and
\* ARIA_ATTR patterns (data-*, aria-*).
DataAttrNames == {"data-x"}
AriaAttrNames == {"aria-label"}

\* Attributes whose value is never taken for a URI.
URI_SAFE_ATTRIBUTES ==
    { "alt", "class", "for", "id", "label", "name", "pattern", "placeholder",
      "role", "summary", "title", "value", "style", "xmlns" }

\* Attribute values of the model: "v" is a plain word, "javascript:v" a
\* script URI.  IS_ALLOWED_URI accepts a value that starts with an allowed
\* scheme or that has no scheme at all.
IsAllowedUri(val) == val # "javascript:v"

-----------------------------------------------------------------------------
(* purify.sanitize, stage 1: the DOMParser builds the document.            *)
(* The tree construction rules are those of the HTML standard for the      *)
(* kinds of token the model feeds it: text, comments, p, button, the raw   *)
(* text elements script and style, void elements, and ordinary elements    *)
(* (any other tag, such as span or an unknown <foo>).                      *)

RawTextTags == {"script", "style"}

VoidTags == {"img", "br", "hr", "col"}

\* Elements that end the search for an element "in scope".
ScopeMarkers ==
    { "applet", "caption", "html", "table", "td", "th", "marquee", "object",
      "template" }

ButtonScopeMarkers == ScopeMarkers \cup {"button"}

\* The "special" category of the tree construction stage.
SpecialTags ==
    { "address", "applet", "area", "article", "aside", "base", "basefont",
      "bgsound", "blockquote", "body", "br", "button", "caption", "center",
      "col", "colgroup", "dd", "details", "dir", "div", "dl", "dt", "embed",
      "fieldset", "figcaption", "figure", "footer", "form", "frame",
      "frameset", "h1", "h2", "h3", "h4", "h5", "h6", "head", "header",
      "hgroup", "hr", "html", "iframe", "img", "input", "keygen", "li",
      "link", "listing", "main", "marquee", "menu", "meta", "nav", "noembed",
      "noframes", "noscript", "object", "ol", "p", "param", "plaintext",
      "pre", "script", "search", "section", "select", "source", "style",
      "summary", "table", "tbody", "td", "template", "textarea", "tfoot",
      "th", "thead", "title", "tr", "track", "ul", "wbr", "xmp" }

\* The input stream is preprocessed: CR LF and a lone CR become LF.
RECURSIVE PreprocessNewlines(_)
PreprocessNewlines(s) ==
    IF s = <<>> THEN <<>>
    ELSE IF Head(s) = Text("\r")
         THEN IF Len(s) > 1 /\ s[2] = Text("\n")
              THEN <<Text("\n")>> \o PreprocessNewlines(Tail(Tail(s)))
              ELSE <<Text("\n")>> \o PreprocessNewlines(Tail(s))
         ELSE <<Head(s)>> \o PreprocessNewlines(Tail(s))

\* The index of the topmost element named tag on the stack of open elements
\* (the top of the stack is its last entry), 0 when there is none.
TopIndex(stack, tag) ==
    LET is == {i \in 1..Len(stack) : stack[i] = tag}
    IN  IF is = {} THEN 0 ELSE CHOOSE i \in is : \A j \in is : j <= i

\* "has an element in the specific scope" for the scope that markers end.
HasInScope(stack, tag, markers) ==
    LET i == TopIndex(stack, tag)
    IN  i > 0 /\ \A j \in (i + 1)..Len(stack) : stack[j] \notin markers

\* Pop the stack of open elements until an element named tag has been
\* popped: every element popped is closed.
PopThrough(st, tag) ==
    LET i == TopIndex(st.stack, tag)
        n == Len(st.stack)
    IN  [st EXCEPT !.out = @ \o [j \in 1..(n - i + 1) |-> Close(st.stack[n - j + 1])],
                   !.stack = SubSeq(@, 1, i - 1)]

Push(st, t) == [st EXCEPT !.out = Append(@, t), !.stack = Append(@, t.tag)]

Emit(st, t) == [st EXCEPT !.out = Append(@, t)]

\* "Any other end tag" of the "in body" insertion mode.
AnyOtherEndTag(st, tag) ==
    LET i == TopIndex(st.stack, tag)
    IN  IF i > 0 /\ \A j \in (i + 1)..Len(st.stack) : st.stack[j] \notin SpecialTags
        THEN PopThrough(st, tag)
        ELSE st

\* What a token inside a script or style element is: characters of its text.
RawText(t) == IF t.k = "text" THEN t ELSE Text("raw")

\* The "in body" insertion mode.
InBody(st, t) ==
    CASE t.k \in {"text", "comment"} -> Emit(st, t)
      [] t.k = "open" /\ t.tag \in RawTextTags ->
            [Emit(st, t) EXCEPT !.mode = "bodyraw", !.raw = t.tag]
      [] t.k = "open" /\ t.tag = "p" ->
            Push(IF HasInScope(st.stack, "p", ButtonScopeMarkers)
                 THEN PopThrough(st, "p") ELSE st, t)
      [] t.k = "open" /\ t.tag = "button" ->
            Push(IF HasInScope(st.stack, "button", ScopeMarkers)
                 THEN PopThrough(st, "button") ELSE st, t)
      [] t.k = "open" /\ t.tag \in VoidTags -> Emit(st, t)
      [] t.k = "open" /\ t.tag \notin RawTextTags \cup VoidTags \cup {"p", "button"} ->
            Push(st, t)
      [] t.k = "close" /\ t.tag = "p" ->
            IF HasInScope(st.stack, "p", ButtonScopeMarkers)
            THEN PopThrough(st, "p")
            ELSE Emit(Emit(st, Open("p", <<>>)), Close("p"))
      [] t.k = "close" /\ t.tag = "button" ->
            IF HasInScope(st.stack, "button", ScopeMarkers)
            THEN PopThrough(st, "button")
            ELSE st
      [] t.k = "close" /\ t.tag \notin {"p", "button"} -> AnyOtherEndTag(st, t.tag)

\* One token through the tree builder.  Until the first token that belongs
\* in the body the builder is before or in the head ("head"): whitespace,
\* comments and stray end tags do not reach the body, and a script or style
\* element is put in the head.
TreeStep(st, t) ==
    CASE st.mode = "headraw" ->
            IF t = Close(st.raw) THEN [st EXCEPT !.mode = "head"] ELSE st
      [] st.mode = "bodyraw" ->
            IF t = Close(st.raw)
            THEN [Emit(st, t) EXCEPT !.mode = "body"]
            ELSE Emit(st, RawText(t))
      [] st.mode = "head" ->
            IF IsWs(t) \/ t.k \in {"comment", "close"} THEN st
            ELSE IF t.k = "open" /\ t.tag \in RawTextTags
                 THEN [st EXCEPT !.mode = "headraw", !.raw = t.tag]
                 ELSE InBody([st EXCEPT !.mode = "body"], t)
      [] st.mode = "body" -> InBody(st, t)

RECURSIVE TreeBuild(_, _)
TreeBuild(toks, st) ==
    IF toks = <<>>
    THEN \* end of file: a raw text element and every open element end here
         LET st1 == IF st.mode = "bodyraw" THEN Emit(st, Close(st.raw)) ELSE st
             n == Len(st1.stack)
         IN  st1.out \o [j \in 1..n |-> Close(st1.stack[n - j + 1])]
    ELSE TreeBuild(Tail(toks), TreeStep(st, Head(toks)))

\* The children of the body element of the document parsed from dirty.
ParseBody(dirty) ==
    TreeBuild(PreprocessNewlines(dirty),
              [mode |-> "head", stack |-> <<>>, out |-> <<>>, raw |-> ""])

\* The longest prefix of whitespace of the string: the purifier puts it back
\* in front of the body, because the parser drops it.
RECURSIVE LeadingWhitespace(_)
LeadingWhitespace(s) ==
    IF s # <<>> /\ IsWs(Head(s))
    THEN <<Head(s)>> \o LeadingWhitespace(Tail(s))
    ELSE <<>>

\* _initDocument: the body the node iterator walks.
InitDocument(dirty) == LeadingWhitespace(dirty) \o ParseBody(dirty)

-----------------------------------------------------------------------------
(* purify.sanitize, stage 2: the node iterator walks the body in document  *)
(* order; _sanitizeElements and _sanitizeAttributes remove what the        *)
(* configuration does not allow and record it in purify.removed.           *)

\* _forceRemove records {element: node}; node is held by its nodeName.
RemovedElement(nodeName) ==
    [element |-> nodeName, attribute |-> Undefined, from |-> Undefined]

\* _removeAttribute records {attribute: attr, from: node}.
RemovedAttribute(name, nodeName) ==
    [element |-> Undefined, attribute |-> name, from |-> nodeName]

\* _isValidAttribute.  No value of the model is a data: URI or names a
\* property of the document, so those two rules never apply.
IsValidAttribute(lcTag, lcName, value) ==
    IF ALLOW_DATA_ATTR /\ lcName \in DataAttrNames THEN TRUE
    ELSE IF ALLOW_ARIA_ATTR /\ lcName \in AriaAttrNames THEN TRUE
    ELSE IF lcName \notin ALLOWED_ATTR THEN FALSE
    ELSE IF lcName \in URI_SAFE_ATTRIBUTES THEN TRUE
    ELSE IF IsAllowedUri(value) THEN TRUE
    ELSE value = ""

\* The attributes an element keeps, in their order.
KeptAttributes(t) ==
    SelectSeq(t.attrs, LAMBDA a : IsValidAttribute(t.tag, a.name, a.val))

\* The records of the attributes an element loses: _sanitizeAttributes goes
\* through the attributes from the last to the first.
RECURSIVE AttributeRemovals(_, _)
AttributeRemovals(tag, attrs) ==
    IF attrs = <<>> THEN <<>>
    ELSE (IF IsValidAttribute(tag, Last(attrs).name, Last(attrs).val)
          THEN <<>>
          ELSE <<RemovedAttribute(Last(attrs).name, tag)>>)
         \o AttributeRemovals(tag, Front(attrs))

\* Inside an element that was removed with its content nothing is visited.
Skipping(w) == \E i \in 1..Len(w.stack) : w.stack[i] = "skip"

\* One node of the walk.  The stack says, for every element the walk is
\* inside of, whether it was kept, dropped with its children re-parented in
\* its place ("drop"), or removed with its whole content ("skip").
SanitizeNode(w, t) ==
    CASE t.k = "text" ->
            IF Skipping(w) THEN w ELSE [w EXCEPT !.out = Append(@, t)]
      [] t.k = "comment" ->
            IF Skipping(w) THEN w
            ELSE [w EXCEPT !.removed = Append(@, RemovedElement(t.tag))]
      [] t.k = "open" /\ Skipping(w) ->
            IF t.tag \in VoidTags THEN w ELSE [w EXCEPT !.stack = Append(@, "skip")]
      [] t.k = "open" /\ ~Skipping(w) /\ t.tag \in ALLOWED_TAGS ->
            [w EXCEPT !.out = Append(@, Open(t.tag, KeptAttributes(t))),
                      !.removed = @ \o AttributeRemovals(t.tag, t.attrs),
                      !.stack = IF t.tag \in VoidTags THEN @ ELSE Append(@, "keep")]
      [] t.k = "open" /\ ~Skipping(w) /\ t.tag \notin ALLOWED_TAGS ->
            [w EXCEPT !.removed = Append(@, RemovedElement(t.tag)),
                      !.stack = IF t.tag \in VoidTags THEN @
                                ELSE IF KEEP_CONTENT /\ t.tag \notin FORBID_CONTENTS
                                     THEN Append(@, "drop")
                                     ELSE Append(@, "skip")]
      [] t.k = "close" ->
            [w EXCEPT !.out = IF Last(w.stack) = "keep" THEN Append(@, t) ELSE @,
                      !.stack = Front(@)]

RECURSIVE SanitizeNodes(_, _)
SanitizeNodes(body, w) ==
    IF body = <<>> THEN w
    ELSE SanitizeNodes(Tail(body), SanitizeNode(w, Head(body)))

\* A string without "<" is returned as it is, without being parsed.
HasLessThan(dirty) == \E i \in 1..Len(dirty) : dirty[i].k # "text"

\* A purifier that keeps the records of earlier calls.
ClearRemoved_Kept(purifyRemoved) == purifyRemoved

\* DOMPurify.removed = [] at the start of every sanitize call.
ClearRemoved(purifyRemoved) == <<>>

\* purify.sanitize(html, config) on the module-level purifier whose
\* purify.removed holds purifyRemoved: the string it returns and the value it
\* leaves in purify.removed.
PurifySanitize(purifyRemoved, dirty) ==
    LET cleared == ClearRemoved(purifyRemoved)
    IN  IF ~HasLessThan(dirty)
        THEN [sanitized |-> dirty, removed |-> cleared]
        ELSE LET w == SanitizeNodes(InitDocument(dirty),
                                    [out |-> <<>>, removed |-> cleared, stack |-> <<>>])
             IN  [sanitized |-> w.out, removed |-> w.removed]

-----------------------------------------------------------------------------
(* normalizeHtml *)

\* The length of the match of /<p>\s*<\/p>/ that starts at s[i], 0 when
\* there is none.
EmptyParagraphAt(s, i) ==
    IF s[i] # Open("p", <<>>) THEN 0
    ELSE LET js == {j \in (i + 1)..Len(s) :
                      /\ s[j] = Close("p")
                      /\ \A k \in (i + 1)..(j - 1) : IsWs(s[k])}
         IN  IF js = {} THEN 0 ELSE (CHOOSE j \in js : TRUE) - i + 1

\* replace(/<p>\s*<\/p>/gi, ''): one pass from left to right; the search
\* goes on after the end of each match.
RECURSIVE RemoveEmptyParagraphs(_, _)
RemoveEmptyParagraphs(s, i) ==
    IF i > Len(s) THEN <<>>
    ELSE LET n == EmptyParagraphAt(s, i)
         IN  IF n > 0 THEN RemoveEmptyParagraphs(s, i + n)
             ELSE <<s[i]>> \o RemoveEmptyParagraphs(s, i + 1)

\* replace(/\r\n/g, '\n')
RECURSIVE CanonicalizeLineBreaks(_)
CanonicalizeLineBreaks(s) ==
    IF s = <<>> THEN <<>>
    ELSE IF Len(s) > 1 /\ s[1] = Text("\r") /\ s[2] = Text("\n")
         THEN <<Text("\n")>> \o CanonicalizeLineBreaks(Tail(Tail(s)))
         ELSE <<Head(s)>> \o CanonicalizeLineBreaks(Tail(s))

IsSpaceOrTab(t) == t.k = "text" /\ t.tag \in {" ", "\t"}

\* replace(/[ \t]+/g, ' ')
RECURSIVE SingleSpaces(_)
SingleSpaces(s) ==
    IF s = <<>> THEN <<>>
    ELSE IF IsSpaceOrTab(Head(s))
         THEN IF Len(s) > 1 /\ IsSpaceOrTab(s[2])
              THEN SingleSpaces(Tail(s))
              ELSE <<Text(" ")>> \o SingleSpaces(Tail(s))
         ELSE <<Head(s)>> \o SingleSpaces(Tail(s))

\* String.prototype.trim
RECURSIVE Trim(_)
Trim(s) ==
    IF s = <<>> THEN <<>>
    ELSE IF IsWs(Head(s)) THEN Trim(Tail(s))
    ELSE IF IsWs(Last(s)) THEN Trim(Front(s))
    ELSE s

normalizeHtml(h) ==
    Trim(SingleSpaces(CanonicalizeLineBreaks(RemoveEmptyParagraphs(h, 1))))

-----------------------------------------------------------------------------
(* sanitizeHtml and validateHtml *)

\* node.tagName: an element has one, a comment node has none.
TagName(nodeName) == IF nodeName = "#comment" THEN Undefined ELSE nodeName

StrippedTag(tag) == [msg |-> "Stripped tag", attribute |-> Undefined, tag |-> tag]

StrippedAttribute(name, tag) == [msg |-> "Stripped attribute", attribute |-> name, tag |-> tag]

\* The forEach over purify.removed: the messages passed to log, and whether
\* the loop ended by the TypeError of reading toLowerCase of a tagName that
\* is not there.
RECURSIVE LogRemoved(_, _)
LogRemoved(items, logged) ==
    IF items = <<>> THEN [logged |-> logged, typeError |-> FALSE]
    ELSE LET item == Head(items)
         IN  IF item.element # Undefined
             THEN IF item.attribute = Undefined
                  THEN IF TagName(item.element) = Undefined
                       THEN [logged |-> logged, typeError |-> TRUE]
                       ELSE LogRemoved(Tail(items),
                                Append(logged, StrippedTag(TagName(item.element))))
                  ELSE LogRemoved(Tail(items),
                           Append(logged,
                               StrippedAttribute(item.attribute, TagName(item.element))))
             ELSE LogRemoved(Tail(items), logged)

\* sanitizeHtml returning the purifier's string without normalizing it.
sanitizeHtml_Unnormalized(purifyRemoved, h, strict, hasCallback) ==
    LET p == PurifySanitize(purifyRemoved, h)
        l == LogRemoved(p.removed, <<>>)
        outcome == IF l.typeError THEN "TypeError"
                   ELSE IF strict /\ l.logged # <<>> THEN "StrictValidationError"
                   ELSE "returned"
    IN  [outcome |-> outcome,
         value |-> IF outcome = "returned" THEN p.sanitized ELSE Undefined,
         callback |-> IF hasCallback THEN l.logged ELSE <<>>,
         warned |-> IF hasCallback THEN <<>> ELSE l.logged,
         removed |-> p.removed]

\* sanitizeHtml(html, {strict, onSanitization}) when purify.removed holds
\* purifyRemoved: how the call ends, the string it returns, the messages
\* given to onSanitization and to console.warn, and purify.removed after it.
sanitizeHtml(purifyRemoved, h, strict, hasCallback) ==
    LET p == PurifySanitize(purifyRemoved, h)
        l == LogRemoved(p.removed, <<>>)
        strippedContent == l.logged # <<>>
        outcome == IF l.typeError THEN "TypeError"
                   ELSE IF strict /\ strippedContent THEN "StrictValidationError"
                   ELSE "returned"
    IN  [outcome |-> outcome,
         value |-> IF outcome = "returned" THEN normalizeHtml(p.sanitized) ELSE Undefined,
         callback |-> IF hasCallback THEN l.logged ELSE <<>>,
         warned |-> IF hasCallback THEN <<>> ELSE l.logged,
         removed |-> p.removed]

\* validateHtml(html)
validateHtml(purifyRemoved, h) ==
    LET r == sanitizeHtml(purifyRemoved, h, FALSE, TRUE)
        violations == r.callback
    IN  IF r.outcome = "returned"
        THEN [outcome |-> "returned", valid |-> (Len(violations) = 0),
              violations |-> violations, removed |-> r.removed]
        ELSE [outcome |-> r.outcome, valid |-> Undefined,
              violations |-> Undefined, removed |-> r.removed]

-----------------------------------------------------------------------------------------------------------------------------------------------------
(* The inputs *)

MaxLen == 3

SeqsUpTo(S, n) == UNION {[1..k -> S] : k \in 0..n}

\* Allowed and unknown elements, a script, attributes that are allowed,
\* forbidden, data-* and a script URI, a comment, text and every kind of
\* whitespace.
Tokens ==
    { Open("p", <<>>), Close("p"),
      Open("p", <<Attr("id", "v"), Attr("onclick", "v"), Attr("style", "v"),
                  Attr("data-x", "v")>>),
      Open("img", <<Attr("src", "javascript:v"), Attr("alt", "v")>>),
      Open("foo", <<>>), Close("foo"),
      Open("button", <<>>),
      Open("script", <<>>), Close("script"),
      Comment,
      Text("x"), Text(" "), Text("\t"), Text("\r"), Text("\n") }

-----------------------------------------------------------------------------
(* The calls.  A behaviour is about one document: one call is made on it,  *)
(* and the sanitizer may then be applied again to what it returned.        *)

NoCall ==
    [op |-> "none", input |-> <<>>, stale |-> FALSE,
     strict |-> FALSE, hasCallback |-> FALSE,
     outcome |-> "none", value |-> Undefined, callback |-> <<>>, warned |-> <<>>,
     valid |-> Undefined, violations |-> Undefined]

\* Before signPdfAction, sign and generate are called: no call frame, no
\* document in memory, an empty storage directory, no browser.
NoAction ==
    [pc |-> "idle", pdfId |-> Undefined,
     signatures |-> <<>>, overlays |-> <<>>, id |-> Undefined,
     buffer |-> Undefined, cleanup |-> "none", result |-> Undefined]

NoSign ==
    [pc |-> "idle", pdfBytes |-> Undefined, signatures |-> <<>>,
     overlays |-> <<>>, i |-> 0, console |-> <<>>, log |-> <<>>,
     result |-> Undefined]

NoDocument ==
    [header |-> Undefined, pages |-> <<>>, title |-> Undefined,
     author |-> Undefined, producer |-> Undefined,
     modificationDate |-> Undefined]

EmptyStorage == [files |-> <<>>, temps |-> <<>>]

NoGenerate ==
    [pc |-> "idle", calls |-> <<>>, safeHtml |-> Undefined,
     result |-> Undefined]

NoBrowser == Undefined

\* Before validateFile or parseDocx is called, before any request reaches the
\* middleware, and the reducer's state when the hook is mounted.
NoParser ==
    [pc |-> "idle", op |-> "none", file |-> Undefined, converted |-> Undefined,
     calls |-> <<>>, result |-> Undefined]

\* new Map()
EmptyMap == <<>>

\* A count of 0 stands for rateLimitMap.get(ip) === undefined.
NoRecord == [count |-> 0, lastReset |-> 0]

NoResponse ==
    [ip |-> Undefined, limited |-> FALSE, at |-> 0, before |-> NoRecord,
     status |-> 0]

\* The admitted requests are recorded only where a claim counts them.
NoLog == [on |-> FALSE, entries |-> <<>>]

\* getInitialState()
getInitialState == [step |-> "upload", error |-> "null", progress |-> 0]

\* The hook's first render: no action was dispatched yet.
NoWorkflow ==
    [state |-> getInitialState, action |-> [type |-> "@@INIT"],
     before |-> getInitialState, visited |-> {"upload"}]

Init ==
    /\ html \in SeqsUpTo(Tokens, MaxLen)
    /\ removed = <<>>
    /\ call = NoCall
    /\ action = NoAction
    /\ sign = NoSign
    /\ pdfDoc = NoDocument
    /\ storage = EmptyStorage
    /\ reader = <<>>
    /\ generate = NoGenerate
    /\ browser = NoBrowser
    /\ parser = NoParser
    /\ rateLimitMap = EmptyMap
    /\ now = 0
    /\ response = NoResponse
    /\ admitted = NoLog
    /\ workflow = NoWorkflow

SanitizeCall(op, h, strict, hasCallback) ==
    /\ \E r \in {sanitizeHtml(removed, h, strict, hasCallback)} :
          /\ call' = [NoCall EXCEPT !.op = op, !.input = h, !.strict = strict,
                                    !.stale = (removed # <<>>),
                                    !.hasCallback = hasCallback,
                                    !.outcome = r.outcome, !.value = r.value,
                                    !.callback = r.callback, !.warned = r.warned]
          /\ removed' = r.removed
    /\ UNCHANGED <<html, signVars, generateVars,
                 parserVars, limiterVars, workflowVars>>

\* sanitizeHtml(html, options)
CallSanitizeHtml ==
    /\ call.op = "none"
    /\ \E strict \in BOOLEAN, hasCallback \in BOOLEAN :
          SanitizeCall("sanitizeHtml", html, strict, hasCallback)

\* sanitizeHtml(s) for the string s that sanitizeHtml returned
CallSanitizeAgain ==
    /\ call.op = "sanitizeHtml"
    /\ call.outcome = "returned"
    /\ SanitizeCall("sanitizeAgain", call.value, FALSE, call.hasCallback)

\* validateHtml(html)
CallValidateHtml ==
    /\ call.op = "none"
    /\ \E r \in {validateHtml(removed, html)} :
          /\ call' = [NoCall EXCEPT !.op = "validateHtml", !.input = html,
                                    !.stale = (removed # <<>>),
                                    !.hasCallback = TRUE, !.outcome = r.outcome,
                                    !.valid = r.valid, !.violations = r.violations]
          /\ removed' = r.removed
    /\ UNCHANGED <<html, signVars, generateVars,
                 parserVars, limiterVars, workflowVars>>

\* normalizeHtml(html)
CallNormalizeHtml ==
    /\ call.op = "none"
    /\ call' = [NoCall EXCEPT !.op = "normalizeHtml", !.input = html,
                              !.outcome = "returned", !.value = normalizeHtml(html)]
    /\ UNCHANGED <<html, removed, signVars, generateVars,
                 parserVars, limiterVars, workflowVars>>

Next ==
    \/ CallSanitizeHtml
    \/ CallSanitizeAgain
    \/ CallValidateHtml
    \/ CallNormalizeHtml

Spec == Init /\ [][Next]_vars

-----------------------------------------------------------------------------
(* Properties *)

Range(s) == {s[i] : i \in 1..Len(s)}

Count(s, P(_)) == Cardinality({i \in 1..Len(s) : P(s[i])})

IsTag(t) == t.k \in {"open", "close"}

\* The attributes that occur in a string.
AttrsOf(s) == UNION {Range(s[i].attrs) : i \in 1..Len(s)}

\* Only allow-listed tags and attribute names, and no comment.
OnlyAllowedMarkup(s) ==
    /\ \A t \in Range(s) : IsTag(t) => t.tag \in ALLOWED_TAGS
    /\ \A a \in AttrsOf(s) : a.name \in ALLOWED_ATTR
    /\ Comment \notin Range(s)

EventHandlerNames == {"onclick", "onerror", "onload", "onmouseover"}

NoUnsafeMarkup(s) ==
    /\ \A t \in Range(s) : IsTag(t) => t.tag \notin {"script", "style"}
    /\ \A a \in AttrsOf(s) :
          /\ a.name \notin EventHandlerNames \cup {"style"}
          /\ a.val # "javascript:v"

SanitizeReturned ==
    /\ call.op \in {"sanitizeHtml", "sanitizeAgain"}
    /\ call.outcome = "returned"

\* C1: the string a non-strict sanitizeHtml returns has only elements of
\* ALLOWED_TAGS and only attributes of ALLOWED_ATTR, and in particular no
\* style attribute, no event handler attribute and no javascript: URL.
C1_OnlyAllowedTagsAndAttributes ==
    (SanitizeReturned /\ ~call.strict) =>
        OnlyAllowedMarkup(call.value) /\ NoUnsafeMarkup(call.value)

\* The part of C1 about unsafe markup alone: no script or style element, no
\* style attribute, no event handler and no javascript: URL is returned.
NoUnsafeMarkupReturned == SanitizeReturned => NoUnsafeMarkup(call.value)

\* C2: a strict call fails with the strict validation error, and returns
\* nothing, whenever the sanitizer removed a tag or an attribute.
C2_StrictFailsOnAnyRemoval ==
    (call.op = "sanitizeHtml" /\ call.strict /\ removed # <<>>) =>
        call.outcome = "StrictValidationError" /\ call.value = Undefined

\* C3: sanitizeHtml fails only when strict and something was removed: a
\* non-strict call returns a string for every input, and a strict call on an
\* input from which nothing is removed returns what the non-strict call
\* returns.
C3_FailsOnlyWhenStrictAndRemoved ==
    call.op = "sanitizeHtml" =>
        /\ ~call.strict => call.outcome = "returned"
        /\ (call.strict /\ removed = <<>>) =>
              /\ call.outcome = "returned"
              /\ call.value = sanitizeHtml(<<>>, call.input, FALSE, call.hasCallback).value
        /\ call.outcome # "returned" => (call.strict /\ removed # <<>>)

\* The message the callback is owed for a record of purify.removed.
MessageFor(item) ==
    IF item.attribute = Undefined
    THEN StrippedTag(item.element)
    ELSE StrippedAttribute(item.attribute, item.from)

\* C4: the callback is invoked for every tag and every attribute the call
\* removed, with a message naming it (and, for an attribute, the tag it was
\* on), and it is not invoked when nothing was removed.
C4_EveryRemovalReported ==
    (call.op = "sanitizeHtml" /\ call.hasCallback) =>
        /\ \A i \in 1..Len(removed) : MessageFor(removed[i]) \in Range(call.callback)
        /\ removed = <<>> => call.callback = <<>>

\* C5: sanitizeHtml is idempotent: applied to the string it returned, it
\* returns that string.
C5_Idempotent ==
    (call.op = "sanitizeAgain") =>
        call.outcome = "returned" /\ call.value = call.input

\* The children of the body as they are after a walk that removes exactly:
\* the tags of elements not in the allow-list (keeping what is inside),
\* the whole content of the elements in contentDropped, comments, and the
\* attributes that are not valid.

\* The number of elements opened and not yet closed in dom[j..k].
Balance(dom, j, k) ==
    Cardinality({m \in j..k : dom[m].k = "open" /\ dom[m].tag \notin VoidTags})
        - Cardinality({m \in j..k : dom[m].k = "close"})

\* dom[i] is inside the element that dom[j] opens (or is its end tag).
Encloses(dom, j, i) ==
    /\ j < i
    /\ dom[j].k = "open" /\ dom[j].tag \notin VoidTags
    /\ \A k \in j..(i - 1) : Balance(dom, j, k) > 0

InsideDropped(dom, i, contentDropped) ==
    \E j \in 1..(i - 1) :
        /\ Encloses(dom, j, i)
        /\ dom[j].tag \notin ALLOWED_TAGS
        /\ dom[j].tag \in contentDropped

RECURSIVE Retained(_, _, _)
Retained(dom, i, contentDropped) ==
    IF i > Len(dom) THEN <<>>
    ELSE (IF /\ ~InsideDropped(dom, i, contentDropped)
             /\ \/ dom[i].k = "text"
                \/ IsTag(dom[i]) /\ dom[i].tag \in ALLOWED_TAGS
          THEN <<[dom[i] EXCEPT !.attrs = KeptAttributes(dom[i])]>>
          ELSE <<>>)
         \o Retained(dom, i + 1, contentDropped)

WellFormed(h) == ~HasLessThan(h) \/ InitDocument(h) = h

C7_EveryUnknownElementUnwrapped ==
    (call.op = "sanitizeHtml" /\ call.outcome = "returned" /\ HasLessThan(call.input)) =>
        call.value = normalizeHtml(Retained(InitDocument(call.input), 1, {}))

\* C7, amended: every element that is removed because its tag is not in the
\* allow-list, and whose tag is not in FORBID_CONTENTS, loses its tag and
\* keeps its children, in place and in order; an element of FORBID_CONTENTS
\* (script, style) is removed with everything inside it.
C7_UnknownElementUnwrapped ==
    (call.op = "sanitizeHtml" /\ HasLessThan(call.input)) =>
        /\ PurifySanitize(<<>>, call.input).sanitized
              = Retained(InitDocument(call.input), 1, FORBID_CONTENTS)
        /\ call.outcome = "returned" =>
              call.value = normalizeHtml(Retained(InitDocument(call.input), 1, FORBID_CONTENTS))

\* <p><foo>x: the unknown element is gone, its text is in the paragraph.
C7_Witness ==
    /\ call.op = "sanitizeHtml"
    /\ call.input = <<Open("p", <<>>), Open("foo", <<>>), Text("x")>>
    /\ RemovedElement("foo") \in Range(removed)
    /\ call.value = <<Open("p", <<>>), Text("x"), Close("p")>>

\* The tokens of a string that are not inside a script or style element,
\* as the tokenizer delimits it: from the start tag to the next end tag of
\* the same name.
RECURSIVE OutsideRawText(_, _)
OutsideRawText(s, raw) ==
    IF s = <<>> THEN <<>>
    ELSE IF raw # ""
         THEN OutsideRawText(Tail(s), IF Head(s) = Close(raw) THEN "" ELSE raw)
         ELSE IF Head(s).k = "open" /\ Head(s).tag \in RawTextTags
              THEN OutsideRawText(Tail(s), Head(s).tag)
              ELSE <<Head(s)>> \o OutsideRawText(Tail(s), "")

IsX(t) == t = Text("x")
IsImg(t) == t.k = "open" /\ t.tag = "img"
IsParagraphWithAttributes(t) == t.k = "open" /\ t.tag = "p" /\ t.attrs # <<>>
IsRawText(t) == t = Text("raw")

HasScript(s) == \E t \in Range(s) : t.k = "open" /\ t.tag \in RawTextTags

\* C8: when the input has a script or style element, the element is removed
\* with its whole content: nothing that was inside it is in the output, and
\* the text, the images and the paragraphs with attributes outside it are
\* all kept.
C8_ScriptRemovedWithContent ==
    (call.op = "sanitizeHtml" /\ call.outcome = "returned" /\ HasScript(call.input)) =>
        /\ \A t \in Range(call.value) : IsTag(t) => t.tag \notin RawTextTags
        /\ Count(call.value, IsRawText) = 0
        /\ Count(call.value, IsX) = Count(OutsideRawText(call.input, ""), IsX)
        /\ Count(call.value, IsImg) = Count(OutsideRawText(call.input, ""), IsImg)
        /\ Count(call.value, IsParagraphWithAttributes)
              = Count(OutsideRawText(call.input, ""), IsParagraphWithAttributes)

\* x<script>x: the script in the body was removed, its text with it.
C8_Witness ==
    /\ call.op = "sanitizeHtml"
    /\ call.input = <<Text("x"), Open("script", <<>>), Text("x")>>
    /\ RemovedElement("script") \in Range(removed)
    /\ call.value = <<Text("x")>>

EmptyParagraphIn(s) == \E i \in 1..Len(s) : EmptyParagraphAt(s, i) > 0

SpaceRunIn(s) ==
    \/ \E i \in 1..(Len(s) - 1) : IsSpaceOrTab(s[i]) /\ IsSpaceOrTab(s[i + 1])
    \/ Text("\t") \in Range(s)

CrLfIn(s) == \E i \in 1..(Len(s) - 1) : s[i] = Text("\r") /\ s[i + 1] = Text("\n")

\* C9: the string normalizeHtml returns, and so the string sanitizeHtml
\* returns, has no empty or whitespace-only paragraph (no match of
\* <p>\s*</p>), no run of spaces and tabs other than one space, and no CRLF.
C9_Normalized ==
    (call.op \in {"normalizeHtml", "sanitizeHtml", "sanitizeAgain"}
        /\ call.outcome = "returned") =>
        /\ ~EmptyParagraphIn(call.value)
        /\ ~SpaceRunIn(call.value)
        /\ ~CrLfIn(call.value)

\* C10: validateHtml never throws; valid is true exactly when there is no
\* violation, and false exactly when the strict sanitizeHtml fails on the
\* input, which is whenever sanitizing removes a tag or an attribute.
C10_ValidateIsDryRun ==
    call.op = "validateHtml" =>
        /\ call.outcome = "returned"
        /\ call.valid = (call.violations = <<>>)
        /\ (call.valid = FALSE) = (sanitizeHtml(<<>>, html, TRUE, FALSE).outcome # "returned")
        /\ (call.valid = FALSE) = (removed # <<>>)

-----------------------------------------------------------------------------
(* A sequence of calls.  Every call goes through the one purifier of the   *)
(* module, so a call finds in purify.removed what the call before it left  *)
(* there; call.stale says that it found records.                           *)

MaxCallLen == 2

\* An unknown element, a comment and text.
CallTokens == { Open("foo", <<>>), Comment, Text("x") }

CallInputs == SeqsUpTo(CallTokens, MaxCallLen)

\* sanitizeHtml(h, options) on any string, after any calls
NextSanitizeHtml ==
    \E h \in CallInputs, strict \in BOOLEAN, hasCallback \in BOOLEAN :
       \E r \in {sanitizeHtml(removed, h, strict, hasCallback)} :
          /\ html' = h
          /\ call' = [NoCall EXCEPT !.op = "sanitizeHtml", !.input = h,
                                    !.stale = (removed # <<>>),
                                    !.strict = strict,
                                    !.hasCallback = hasCallback,
                                    !.outcome = r.outcome, !.value = r.value,
                                    !.callback = r.callback, !.warned = r.warned]
          /\ removed' = r.removed
          /\ UNCHANGED <<signVars, generateVars,
                 parserVars, limiterVars, workflowVars>>

\* validateHtml(h) on any string, after any calls
NextValidateHtml ==
    \E h \in CallInputs :
       \E r \in {validateHtml(removed, h)} :
          /\ html' = h
          /\ call' = [NoCall EXCEPT !.op = "validateHtml", !.input = h,
                                    !.stale = (removed # <<>>),
                                    !.hasCallback = TRUE, !.outcome = r.outcome,
                                    !.valid = r.valid, !.violations = r.violations]
          /\ removed' = r.removed
          /\ UNCHANGED <<signVars, generateVars,
                 parserVars, limiterVars, workflowVars>>

InitCalls ==
    /\ html = <<>>
    /\ removed = <<>>
    /\ call = NoCall
    /\ action = NoAction
    /\ sign = NoSign
    /\ pdfDoc = NoDocument
    /\ storage = EmptyStorage
    /\ reader = <<>>
    /\ generate = NoGenerate
    /\ browser = NoBrowser
    /\ parser = NoParser
    /\ rateLimitMap = EmptyMap
    /\ now = 0
    /\ response = NoResponse
    /\ admitted = NoLog
    /\ workflow = NoWorkflow

NextCalls ==
    \/ NextSanitizeHtml
    \/ NextValidateHtml

SpecCalls == InitCalls /\ [][NextCalls]_vars

\* C21: sanitizeHtml and validateHtml are stateless across calls.  Whatever
\* calls were made before it, a call ends, returns and reports what the same
\* call makes on a purifier that has recorded nothing; in particular a call
\* from whose input nothing is removed reports nothing and returns, strict
\* or not, although purify.removed held the records of an earlier call.
C21_StatelessAcrossCalls ==
    /\ call.op = "sanitizeHtml" =>
          LET r == sanitizeHtml(<<>>, call.input, call.strict, call.hasCallback)
          IN  /\ call.outcome = r.outcome
              /\ call.value = r.value
              /\ call.callback = r.callback
              /\ call.warned = r.warned
    /\ call.op = "validateHtml" =>
          LET v == validateHtml(<<>>, call.input)
          IN  /\ call.outcome = v.outcome
              /\ call.valid = v.valid
              /\ call.violations = v.violations
    /\ (call.op = "sanitizeHtml" /\ ~HasLessThan(call.input)) =>
          /\ call.outcome = "returned"
          /\ call.callback = <<>>
          /\ call.warned = <<>>

\* A strict call that returns although the call before it left records in
\* purify.removed, and a validateHtml that finds a string valid after them.
C21_Witness ==
    /\ call.stale
    /\ \/ call.op = "sanitizeHtml" /\ call.strict /\ call.outcome = "returned"
       \/ call.op = "validateHtml" /\ call.outcome = "returned" /\ call.valid = TRUE

-----------------------------------------------------------------------------
(* PDF signing: the inputs *)

MaxPages == 2
MaxItems == 2

\* A4 and Letter, in points.
PageSizes == {[width |-> 595, height |-> 842], [width |-> 612, height |-> 792]}

\* pdf-lib's document for a file with these pages: nothing drawn by the
\* signer yet, none of the metadata it writes.
Document(sizes) ==
    [header |-> "%PDF-",
     pages |-> [n \in 1..Len(sizes) |->
                   [width |-> sizes[n].width, height |-> sizes[n].height,
                    images |-> <<>>]],
     title |-> Undefined, author |-> Undefined, producer |-> Undefined,
     modificationDate |-> Undefined]

Documents == {Document(sizes) : sizes \in SeqsUpTo(PageSizes, MaxPages) \ {<<>>}}

\* Bytes that are not a PDF, and the bytes of a write that did not finish.
NotAPdf == [Document(<<>>) EXCEPT !.header = "not a pdf"]

Partial == [Document(<<>>) EXCEPT !.header = "partial"]

PdfFiles == Documents \cup {NotAPdf}

\* Page numbers below, inside and above the pages of every document.
PageNumbers == 0..(MaxPages + 1)

DataUrlPrefix == "data:image/png;base64,"

\* imageBase64: a data URL of a PNG, and one whose payload is no PNG.
Images == {<<DataUrlPrefix, "png">>, <<DataUrlPrefix, "corrupt">>}

Rectangles ==
    {[x |-> 50, y |-> 100, width |-> 200, height |-> 80],
     [x |-> 300, y |-> 700, width |-> 120, height |-> 60]}

\* SignatureData
Signatures ==
    {[imageBase64 |-> im,
      position |-> [page |-> p, x |-> r.x, y |-> r.y, width |-> r.width,
                    height |-> r.height]] :
        im \in Images, p \in PageNumbers, r \in Rectangles}

\* PageOverlays: page number -> imageBase64
Overlays ==
    UNION {[K -> Images] : K \in {L \in SUBSET PageNumbers : Cardinality(L) <= MaxItems}}

\* The arguments of one call: at most MaxItems placements and overlays.
SignArguments ==
    {a \in SeqsUpTo(Signatures, MaxItems) \X Overlays :
        Len(a[1]) + Cardinality(DOMAIN a[2]) <= MaxItems}

SourceId == "source"
SignedId == "signed"

-----------------------------------------------------------------------------
(* PDF signing: pdf-lib and the storage directory *)

CanLoad_Anything(pdfBytes) == TRUE

\* PDFDocument.load(pdfBytes): the document, or an exception
CanLoad(pdfBytes) == pdfBytes.header = "%PDF-"

\* imageBase64.replace(/^data:image\/png;base64,/, '')
StripDataUrlPrefix(imageBase64) ==
    IF Len(imageBase64) > 0 /\ imageBase64[1] = DataUrlPrefix
    THEN Tail(imageBase64)
    ELSE imageBase64

CanEmbedPng_Anything(imageBase64) == TRUE

\* pdfDoc.embedPng(Buffer.from(base64Data, 'base64')): an exception unless
\* the decoded bytes are a PNG
CanEmbedPng(imageBase64) == StripDataUrlPrefix(imageBase64) = <<"png">>

DrawImage_OnFirstPage(doc, pageIndex, options) ==
    [doc EXCEPT !.pages[1].images = Append(@, options)]

\* page.drawImage(embeddedImage, options) on pages[pageIndex] (0-based)
DrawImage(doc, pageIndex, options) ==
    [doc EXCEPT !.pages[pageIndex + 1].images = Append(@, options)]

\* Object.entries(overlays): integer keys in ascending order
RECURSIVE Entries(_)
Entries(overlays) ==
    IF DOMAIN overlays = {} THEN <<>>
    ELSE LET k == CHOOSE j \in DOMAIN overlays : \A m \in DOMAIN overlays : j <= m
         IN <<[pageNumStr |-> k, imageBase64 |-> overlays[k]]>>
            \o Entries([m \in DOMAIN overlays \ {k} |-> overlays[m]])

\* pdfDoc.save(): the bytes of the document as it now is
Save(doc) == doc

OutOfRange_LastPageToo(pageIndex, doc) ==
    pageIndex < 0 \/ pageIndex >= Len(doc.pages) - 1

\* pageIndex < 0 || pageIndex >= pages.length
OutOfRange(pageIndex, doc) == pageIndex < 0 \/ pageIndex >= Len(doc.pages)

Placement_FromTop(position) ==
    [x |-> position.x, y |-> 842 - position.y - position.height,
     width |-> position.width, height |-> position.height]

\* { x: position.x, y: position.y, width: position.width, height: position.height }
Placement(position) ==
    [x |-> position.x, y |-> position.y, width |-> position.width,
     height |-> position.height]

FullPage_OfFirstPage(doc, pageIndex) ==
    [x |-> 0, y |-> 0, width |-> doc.pages[1].width,
     height |-> doc.pages[1].height]

\* const { width, height } = page.getSize(); { x: 0, y: 0, width, height }
FullPage(doc, pageIndex) ==
    [x |-> 0, y |-> 0, width |-> doc.pages[pageIndex + 1].width,
     height |-> doc.pages[pageIndex + 1].height]

SignSuccess(pdfBuffer) ==
    [success |-> TRUE, pdfBuffer |-> pdfBuffer, error |-> Undefined]

SignFailure(error) ==
    [success |-> FALSE, pdfBuffer |-> Undefined, error |-> error]

ActionSuccess(id) == [success |-> TRUE, id |-> id, error |-> Undefined]

ActionFailure(error) == [success |-> FALSE, id |-> Undefined, error |-> error]

-----------------------------------------------------------------------------
(* PDF signing: sign and signPdfAction, one step for each await.  The     *)
(* second signPdfAction of sign-pdf.ts has the steps of sign inline, in    *)
(* the same order and with the same results, and other author and producer *)
(* strings; the steps below are those of both.                             *)

Event(op, from, pageIndex, options) ==
    [op |-> op, from |-> from, pageIndex |-> pageIndex, options |-> options]

\* catch (error): console.error and the failure value
Fail(frame, error) ==
    [frame EXCEPT !.pc = "returned",
                  !.console = Append(@, <<"error", "PDF Signing failed:", error>>),
                  !.result = SignFailure(error)]

\* Where sign is after an iteration: at item i of the loop it is in, at the
\* first overlay when the placements are used up, at the metadata when the
\* overlays are.
Continue(frame, loop, i) ==
    LET j == IF loop = "signatures" THEN 1 ELSE i
    IN  IF loop = "signatures" /\ i <= Len(frame.signatures)
        THEN [frame EXCEPT !.pc = "signatures", !.i = i]
        ELSE IF j <= Len(Entries(frame.overlays))
        THEN [frame EXCEPT !.pc = "overlays", !.i = j]
        ELSE [frame EXCEPT !.pc = "metadata", !.i = 0]

\* signPdfAction(pdfId, signatures, overlays)
CallSignPdfAction ==
    /\ action.pc = "idle"
    /\ \E a \in SignArguments :
          action' = [NoAction EXCEPT !.pc = "readFile", !.pdfId = SourceId,
                                     !.signatures = a[1], !.overlays = a[2]]
    /\ UNCHANGED <<sign, pdfDoc, storage, sanitizeVars, generateVars, reader,
                 parserVars, limiterVars, workflowVars>>

\* const pdfBytes = await readFile(pdfId); signer.sign(pdfBytes, ...)
ReadFile ==
    /\ action.pc = "readFile"
    /\ IF action.pdfId \in DOMAIN storage.files
       THEN /\ action' = [action EXCEPT !.pc = "sign"]
            /\ sign' = [NoSign EXCEPT !.pc = "load",
                                      !.pdfBytes = storage.files[action.pdfId],
                                      !.signatures = action.signatures,
                                      !.overlays = action.overlays]
       ELSE /\ action' = [action EXCEPT !.pc = "done",
                                        !.result = ActionFailure("ENOENT")]
            /\ UNCHANGED sign
    /\ UNCHANGED <<pdfDoc, storage, sanitizeVars, generateVars, reader,
                 parserVars, limiterVars, workflowVars>>

\* const pdfDoc = await PDFDocument.load(pdfBytes); pages = pdfDoc.getPages()
Load ==
    /\ sign.pc = "load"
    /\ IF CanLoad(sign.pdfBytes)
       THEN /\ pdfDoc' = sign.pdfBytes
            /\ sign' = Continue(sign, "signatures", 1)
       ELSE /\ sign' = Fail(sign, "Failed to parse PDF document")
            /\ UNCHANGED pdfDoc
    /\ UNCHANGED <<action, storage, sanitizeVars, generateVars, reader,
                 parserVars, limiterVars, workflowVars>>

SignatureStep_EmbedFirst ==
    /\ sign.pc = "signatures"
    /\ LET signature == sign.signatures[sign.i]
           position == signature.position
           pageIndex == position.page - 1
           from == <<"signature", sign.i>>
           options == Placement(position)
           embedding == [sign EXCEPT !.log = Append(@, Event("embedPng", from, pageIndex, Undefined))]
       IN  IF ~CanEmbedPng(signature.imageBase64)
           THEN /\ sign' = Fail(embedding, "not a PNG")
                /\ UNCHANGED pdfDoc
           ELSE IF OutOfRange(pageIndex, pdfDoc)
           THEN /\ sign' = Continue(
                     [embedding EXCEPT !.console = Append(@, <<"warn", position.page>>)],
                     "signatures", sign.i + 1)
                /\ UNCHANGED pdfDoc
           ELSE /\ pdfDoc' = DrawImage(pdfDoc, pageIndex, options)
                /\ sign' = Continue(
                     [embedding EXCEPT !.log = Append(@, Event("drawImage", from, pageIndex, options))],
                     "signatures", sign.i + 1)
    /\ UNCHANGED <<action, storage, sanitizeVars, generateVars, reader,
                 parserVars, limiterVars, workflowVars>>

\* one iteration of: for (const signature of signatures)
SignatureStep ==
    /\ sign.pc = "signatures"
    /\ LET signature == sign.signatures[sign.i]
           position == signature.position
           pageIndex == position.page - 1
           from == <<"signature", sign.i>>
           options == Placement(position)
           embedding == [sign EXCEPT !.log = Append(@, Event("embedPng", from, pageIndex, Undefined))]
       IN  IF OutOfRange(pageIndex, pdfDoc)
           THEN /\ sign' = Continue(
                     [sign EXCEPT !.console = Append(@, <<"warn", position.page>>)],
                     "signatures", sign.i + 1)
                /\ UNCHANGED pdfDoc
           ELSE IF ~CanEmbedPng(signature.imageBase64)
           THEN /\ sign' = Fail(embedding, "not a PNG")
                /\ UNCHANGED pdfDoc
           ELSE /\ pdfDoc' = DrawImage(pdfDoc, pageIndex, options)
                /\ sign' = Continue(
                     [embedding EXCEPT !.log = Append(@, Event("drawImage", from, pageIndex, options))],
                     "signatures", sign.i + 1)
    /\ UNCHANGED <<action, storage, sanitizeVars, generateVars, reader,
                 parserVars, limiterVars, workflowVars>>

\* one iteration of: for (const [pageNumStr, imageBase64] of Object.entries(overlays))
OverlayStep ==
    /\ sign.pc = "overlays"
    /\ LET entry == Entries(sign.overlays)[sign.i]
           pageNum == entry.pageNumStr
           pageIndex == pageNum - 1
           from == <<"overlay", pageNum>>
           embedding == [sign EXCEPT !.log = Append(@, Event("embedPng", from, pageIndex, Undefined))]
       IN  IF OutOfRange(pageIndex, pdfDoc)
           THEN /\ sign' = Continue(sign, "overlays", sign.i + 1)
                /\ UNCHANGED pdfDoc
           ELSE IF ~CanEmbedPng(entry.imageBase64)
           THEN /\ sign' = Fail(embedding, "not a PNG")
                /\ UNCHANGED pdfDoc
           ELSE LET options == FullPage(pdfDoc, pageIndex)
                IN  /\ pdfDoc' = DrawImage(pdfDoc, pageIndex, options)
                    /\ sign' = Continue(
                         [embedding EXCEPT !.log = Append(@, Event("drawImage", from, pageIndex, options))],
                         "overlays", sign.i + 1)
    /\ UNCHANGED <<action, storage, sanitizeVars, generateVars, reader,
                 parserVars, limiterVars, workflowVars>>

SignedTitle_Blank == ""

SignedTitle == "Signed Document"

Author == "SignFlow User"

Producer == "SignFlow PDF Signer"

\* pdfDoc.setTitle(...) ... await pdfDoc.save(); return {success: true, pdfBuffer}
SetMetadataAndSave ==
    /\ sign.pc = "metadata"
    /\ pdfDoc' = [pdfDoc EXCEPT !.title = SignedTitle,
                                !.author = Author,
                                !.producer = Producer,
                                !.modificationDate = "now"]
    /\ sign' = [sign EXCEPT !.pc = "returned",
                            !.log = @ \o <<Event("setTitle", Undefined, Undefined, Undefined),
                                           Event("save", Undefined, Undefined, Undefined)>>,
                            !.result = SignSuccess(Save(pdfDoc'))]
    /\ UNCHANGED <<action, storage, sanitizeVars, generateVars, reader,
                 parserVars, limiterVars, workflowVars>>

Without(f, k) == [j \in DOMAIN f \ {k} |-> f[j]]

AfterSign_SaveAlways ==
    /\ action.pc = "sign"
    /\ sign.pc = "returned"
    /\ action' = [action EXCEPT !.pc = "writeFile", !.id = SignedId,
                                !.buffer = sign.result.pdfBuffer]
    /\ UNCHANGED <<sign, pdfDoc, storage, sanitizeVars, generateVars, reader,
                 parserVars, limiterVars, workflowVars>>

\* if (!result.success) return {success: false, error}; else saveFile(...)
\* begins: a new id and the name of its temporary file
AfterSign ==
    /\ action.pc = "sign"
    /\ sign.pc = "returned"
    /\ action' = IF sign.result.success
                 THEN [action EXCEPT !.pc = "writeFile", !.id = SignedId,
                                     !.buffer = sign.result.pdfBuffer]
                 ELSE [action EXCEPT !.pc = "done",
                                     !.result = ActionFailure(sign.result.error)]
    /\ UNCHANGED <<sign, pdfDoc, storage, sanitizeVars, generateVars, reader,
                 parserVars, limiterVars, workflowVars>>

WriteFile_ToFinalName ==
    /\ action.pc = "writeFile"
    /\ \E written \in BOOLEAN, created \in BOOLEAN :
          /\ written => created
          /\ storage' = IF created
                        THEN [storage EXCEPT !.files =
                                (action.id :> (IF written THEN action.buffer
                                               ELSE Partial)) @@ @]
                        ELSE storage
          /\ action' = IF written
                       THEN [action EXCEPT !.pc = "done",
                                           !.result = ActionSuccess(action.id)]
                       ELSE [action EXCEPT !.pc = "unlink"]
    /\ UNCHANGED <<sign, pdfDoc, sanitizeVars, generateVars, reader,
                 parserVars, limiterVars, workflowVars>>

\* await fs.writeFile(tempFilepath, buffer): when it fails, the temporary
\* file may or may not have been created
WriteFile ==
    /\ action.pc = "writeFile"
    /\ \E written \in BOOLEAN, created \in BOOLEAN :
          /\ written => created
          /\ storage' = IF created
                        THEN [storage EXCEPT !.temps =
                                (action.id :> (IF written THEN action.buffer
                                               ELSE Partial)) @@ @]
                        ELSE storage
          /\ action' = [action EXCEPT !.pc = IF written THEN "rename" ELSE "unlink"]
    /\ UNCHANGED <<sign, pdfDoc, sanitizeVars, generateVars, reader,
                 parserVars, limiterVars, workflowVars>>

\* await fs.rename(tempFilepath, filepath); return id
Rename ==
    /\ action.pc = "rename"
    /\ \E renamed \in BOOLEAN :
          IF renamed
          THEN /\ storage' = [files |-> (action.id :> storage.temps[action.id]) @@ storage.files,
                              temps |-> Without(storage.temps, action.id)]
               /\ action' = [action EXCEPT !.pc = "done",
                                           !.result = ActionSuccess(action.id)]
          ELSE /\ action' = [action EXCEPT !.pc = "unlink"]
               /\ UNCHANGED storage
    /\ UNCHANGED <<sign, pdfDoc, sanitizeVars, generateVars, reader,
                 parserVars, limiterVars, workflowVars>>

\* catch: try { await fs.unlink(tempFilepath) } catch { /* ignore */ }; throw
\* error, which signPdfAction turns into {success: false, error}.  unlink
\* fails when there is no temporary file, and it may fail when there is one.
Unlink ==
    /\ action.pc = "unlink"
    /\ \E unlinked \in BOOLEAN :
          LET cleanup == IF action.id \notin DOMAIN storage.temps THEN "absent"
                         ELSE IF unlinked THEN "removed" ELSE "failed"
          IN  /\ storage' = IF cleanup = "removed"
                            THEN [storage EXCEPT !.temps = Without(@, action.id)]
                            ELSE storage
              /\ action' = [action EXCEPT !.pc = "done", !.id = Undefined,
                                          !.cleanup = cleanup,
                                          !.result = ActionFailure("EIO")]
    /\ UNCHANGED <<sign, pdfDoc, sanitizeVars, generateVars, reader,
                 parserVars, limiterVars, workflowVars>>

\* The source file is in storage, as a PDF or as other bytes, or it is not.
InitSign ==
    /\ html = <<>>
    /\ removed = <<>>
    /\ call = NoCall
    /\ action = NoAction
    /\ sign = NoSign
    /\ pdfDoc = NoDocument
    /\ storage \in {EmptyStorage}
                   \cup {[files |-> (SourceId :> f), temps |-> <<>>] : f \in PdfFiles}
    /\ reader = <<>>
    /\ generate = NoGenerate
    /\ browser = NoBrowser
    /\ parser = NoParser
    /\ rateLimitMap = EmptyMap
    /\ now = 0
    /\ response = NoResponse
    /\ admitted = NoLog
    /\ workflow = NoWorkflow

NextSign ==
    \/ CallSignPdfAction
    \/ ReadFile
    \/ Load
    \/ SignatureStep
    \/ OverlayStep
    \/ SetMetadataAndSave
    \/ AfterSign
    \/ WriteFile
    \/ Rename
    \/ Unlink

SpecSign == InitSign /\ [][NextSign]_vars

-----------------------------------------------------------------------------
(* PDF signing: properties *)

\* The placements and the overlays of a call in the order in which sign
\* comes to them.
Work(frame) ==
    [n \in 1..Len(frame.signatures) |->
        [from |-> <<"signature", n>>, page |-> frame.signatures[n].position.page,
         imageBase64 |-> frame.signatures[n].imageBase64]]
    \o [n \in 1..Len(Entries(frame.overlays)) |->
        [from |-> <<"overlay", Entries(frame.overlays)[n].pageNumStr>>,
         page |-> Entries(frame.overlays)[n].pageNumStr,
         imageBase64 |-> Entries(frame.overlays)[n].imageBase64]]

IsPdf(pdfBytes) == pdfBytes \in Documents

PageCount(pdfBytes) == Len(pdfBytes.pages)

InRange(item, pdfBytes) == item.page \in 1..PageCount(pdfBytes)

IsPng(item) == item.imageBase64 = <<DataUrlPrefix, "png">>

\* The events of one kind that an item gave rise to, as positions in the log.
EventsOf(frame, op, item) ==
    {n \in 1..Len(frame.log) : frame.log[n].op = op /\ frame.log[n].from = item.from}

Touched(frame, item) ==
    EventsOf(frame, "embedPng", item) \cup EventsOf(frame, "drawImage", item) # {}

SignReturned == sign.pc = "returned"

\* C11: a placement or overlay whose page is not in 1..pageCount is skipped.
\* When sign has returned for a loadable PDF, no image was embedded or drawn
\* for any out-of-range item; and if the PNG of every in-range item can be
\* embedded, every in-range item was drawn, the call succeeded and the
\* returned PDF has as many pages as the input.
C11_OutOfRangeSkipped ==
    (SignReturned /\ IsPdf(sign.pdfBytes)) =>
        LET work == Work(sign)
            items == Range(work)
        IN  /\ \A item \in items :
                  ~InRange(item, sign.pdfBytes) => ~Touched(sign, item)
            /\ (\A item \in items : InRange(item, sign.pdfBytes) => IsPng(item)) =>
                  /\ sign.result.success
                  /\ \A item \in items :
                        InRange(item, sign.pdfBytes) =>
                            Cardinality(EventsOf(sign, "drawImage", item)) = 1
                  /\ PageCount(sign.result.pdfBuffer) = PageCount(sign.pdfBytes)

\* sign returned success although its first placement was on a page that
\* does not exist, and it drew what came after it.
C11_Witness ==
    /\ SignReturned
    /\ sign.result.success
    /\ \E item \in Range(Work(sign)) : ~InRange(item, sign.pdfBytes)
    /\ \E n \in 1..Len(sign.log) : sign.log[n].op = "drawImage"
    /\ Len(sign.signatures) > 0
    /\ ~InRange(Work(sign)[1], sign.pdfBytes)

\* C12: if the bytes cannot be loaded as a PDF, sign returns (it does not
\* throw) the failure value with an error and no pdfBuffer, and no placement
\* or overlay was looked at: nothing embedded, drawn or warned about.
C12_LoadFailureReported ==
    (sign.pc \notin {"idle", "load"} /\ ~IsPdf(sign.pdfBytes)) =>
        /\ sign.pc = "returned"
        /\ sign.result.success = FALSE
        /\ sign.result.pdfBuffer = Undefined
        /\ sign.result.error # Undefined
        /\ sign.log = <<>>
        /\ \A n \in 1..Len(sign.console) : sign.console[n][1] # "warn"
        /\ pdfDoc = NoDocument

\* sign returned for bytes that are no PDF, called with something to place.
C12_Witness ==
    /\ SignReturned
    /\ ~IsPdf(sign.pdfBytes)
    /\ Len(Work(sign)) > 0

\* C13: if the PNG of an in-range item cannot be embedded, sign returns the
\* failure value with no pdfBuffer, whatever was drawn before it, and no item
\* after the first such one is embedded, drawn or warned about.
C13_EmbedFailureFailsAll ==
    (SignReturned /\ IsPdf(sign.pdfBytes)) =>
        LET work == Work(sign)
            bad == {n \in 1..Len(work) :
                       InRange(work[n], sign.pdfBytes) /\ ~IsPng(work[n])}
        IN  bad # {} =>
              LET first == CHOOSE n \in bad : \A m \in bad : n <= m
              IN  /\ sign.result.success = FALSE
                  /\ sign.result.pdfBuffer = Undefined
                  /\ sign.result.error # Undefined
                  /\ \A n \in (first + 1)..Len(work) : ~Touched(sign, work[n])
                  /\ EventsOf(sign, "drawImage", work[first]) = {}
                  /\ Cardinality({n \in 1..Len(sign.console) : sign.console[n][1] = "warn"})
                       = Cardinality({n \in 1..Len(sign.signatures) :
                                         n < first /\ ~InRange(work[n], sign.pdfBytes)})

\* sign failed on a corrupt PNG after it had drawn an earlier placement.
C13_Witness ==
    /\ SignReturned
    /\ IsPdf(sign.pdfBytes)
    /\ ~sign.result.success
    /\ \E n \in 1..Len(sign.log) : sign.log[n].op = "drawImage"
    /\ Len(Work(sign)) = 2
    /\ InRange(Work(sign)[2], sign.pdfBytes)
    /\ ~IsPng(Work(sign)[2])

SignSucceeded == SignReturned /\ sign.result.success

IsDrawImage(e) == e.op = "drawImage"

Drawn(frame) == SelectSeq(frame.log, IsDrawImage)

\* C14: in every successful call the metadata is written after the last
\* placement and overlay and before the document is serialized: the title is
\* unset while the loops run, the log of a successful call ends with the
\* metadata write followed by save, and the returned PDF has the title
\* 'Signed Document', a producer and a modification date, however many
\* images were drawn.
C14_MetadataAfterItemsBeforeSave ==
    /\ sign.pc \in {"signatures", "overlays", "metadata"} =>
          /\ pdfDoc.title = Undefined
          /\ \A n \in 1..Len(sign.log) : sign.log[n].op \in {"embedPng", "drawImage"}
    /\ SignSucceeded =>
          LET n == Len(sign.log)
          IN  /\ n >= 2
              /\ sign.log[n].op = "save"
              /\ sign.log[n - 1].op = "setTitle"
              /\ \A m \in 1..(n - 2) : sign.log[m].op \in {"embedPng", "drawImage"}
              /\ sign.result.pdfBuffer.title = "Signed Document"
              /\ sign.result.pdfBuffer.producer # Undefined
              /\ sign.result.pdfBuffer.modificationDate # Undefined

\* A successful call that was given placements and drew nothing: every one
\* of them was skipped.
C14_Witness ==
    /\ SignSucceeded
    /\ Len(sign.signatures) = MaxItems
    /\ Drawn(sign) = <<>>
    /\ sign.result.pdfBuffer.title = "Signed Document"

\* C15: in a successful call the images drawn are, in this order, those of
\* the in-range placements in sequence order and then those of the in-range
\* overlays, one drawImage each on page index page - 1 and none for an
\* out-of-range item; so the images of each page of the returned PDF are its
\* placements followed by its overlay.
C15_EachItemOnceInOrder ==
    SignSucceeded =>
        LET work == Work(sign)
            expected == {n \in 1..Len(work) : InRange(work[n], sign.pdfBytes)}
            drawn == Drawn(sign)
            \* the position in work of the n-th in-range item
            Nth(n) == CHOOSE k \in expected :
                          Cardinality({j \in expected : j <= k}) = n
        IN  /\ Len(drawn) = Cardinality(expected)
            /\ \A n \in 1..Len(drawn) :
                  /\ drawn[n].from = work[Nth(n)].from
                  /\ drawn[n].pageIndex = work[Nth(n)].page - 1
            /\ \A n \in 1..Len(work) :
                  Cardinality(EventsOf(sign, "drawImage", work[n]))
                    = IF n \in expected THEN 1 ELSE 0
            /\ \A p \in 1..PageCount(sign.pdfBytes) :
                  LET OnPage(e) == e.pageIndex = p - 1
                      onPage == SelectSeq(drawn, OnPage)
                  IN  sign.result.pdfBuffer.pages[p].images
                        = [n \in 1..Len(onPage) |-> onPage[n].options]

\* A successful call with a placement and an overlay on page 2, both drawn:
\* the overlay after the placement.
C15_Witness ==
    /\ SignSucceeded
    /\ PageCount(sign.pdfBytes) = 2
    /\ Len(sign.signatures) = 1
    /\ sign.signatures[1].position.page = 2
    /\ DOMAIN sign.overlays = {2}
    /\ Len(sign.result.pdfBuffer.pages[2].images) = 2
    /\ sign.result.pdfBuffer.pages[2].images[2].x = 0

\* C16: every overlay that is drawn is drawn on its own page at x = 0, y = 0
\* with the width and height of that page.
C16_OverlayCoversItsPage ==
    \A n \in 1..Len(sign.log) :
        LET e == sign.log[n]
        IN  (e.op = "drawImage" /\ e.from[1] = "overlay") =>
               LET page == sign.pdfBytes.pages[e.from[2]]
               IN  /\ e.pageIndex = e.from[2] - 1
                   /\ e.options = [x |-> 0, y |-> 0, width |-> page.width,
                                   height |-> page.height]
                   /\ \E k \in 1..Len(pdfDoc.pages[e.from[2]].images) :
                         pdfDoc.pages[e.from[2]].images[k] = e.options

\* An overlay was drawn on page 2 of a document whose first page has another
\* size.
C16_Witness ==
    /\ SignSucceeded
    /\ PageCount(sign.pdfBytes) = 2
    /\ sign.pdfBytes.pages[1].width # sign.pdfBytes.pages[2].width
    /\ \E n \in 1..Len(sign.log) :
          /\ sign.log[n].op = "drawImage"
          /\ sign.log[n].from = <<"overlay", 2>>

\* C17: every placement that is drawn is drawn with exactly the x, y, width
\* and height of its position, on the page its position names.
C17_PlacementDrawnAsGiven ==
    \A n \in 1..Len(sign.log) :
        LET e == sign.log[n]
        IN  (e.op = "drawImage" /\ e.from[1] = "signature") =>
               LET position == sign.signatures[e.from[2]].position
               IN  /\ e.pageIndex = position.page - 1
                   /\ e.options.x = position.x
                   /\ e.options.y = position.y
                   /\ e.options.width = position.width
                   /\ e.options.height = position.height
                   /\ \E k \in 1..Len(pdfDoc.pages[position.page].images) :
                         pdfDoc.pages[position.page].images[k] = e.options

\* The same rectangle was drawn on two pages of different height.
C17_Witness ==
    /\ SignSucceeded
    /\ PageCount(sign.pdfBytes) = 2
    /\ sign.pdfBytes.pages[1].height # sign.pdfBytes.pages[2].height
    /\ Len(Drawn(sign)) = 2
    /\ Drawn(sign)[1].from[1] = "signature"
    /\ Drawn(sign)[2].from[1] = "signature"
    /\ Drawn(sign)[1].pageIndex # Drawn(sign)[2].pageIndex
    /\ Drawn(sign)[1].options = Drawn(sign)[2].options
    /\ Drawn(sign)[1].options.y = sign.signatures[1].position.y

\* The storage directory holds what it held before the call.
StorageUntouched ==
    /\ storage.temps = <<>>
    /\ DOMAIN storage.files \subseteq {SourceId}
    /\ sign.pc # "idle" => storage.files[SourceId] = sign.pdfBytes

Saving == action.pc \in {"writeFile", "rename", "unlink"}

\* C18: the signed document is never partially persisted.  saveFile runs
\* only after sign has loaded the PDF, handled every placement and overlay
\* and returned success; until then the storage directory is untouched; when
\* reading, loading or embedding fails the action returns {success: false}
\* with no id and the directory is still untouched; and when the action
\* returns success, exactly one file was added, it holds the signed PDF, and
\* its id is the one returned.
C18_SavedOnlyAfterSigning ==
    /\ action.pc \in {"idle", "readFile", "sign"} => StorageUntouched
    /\ Saving =>
          /\ SignSucceeded
          /\ sign.log[Len(sign.log)].op = "save"
          /\ Len(Drawn(sign))
               = Cardinality({n \in 1..Len(Work(sign)) :
                                 InRange(Work(sign)[n], sign.pdfBytes)})
    /\ (action.pc = "done" /\ ~SignSucceeded) =>
          /\ action.result.success = FALSE
          /\ action.result.id = Undefined
          /\ StorageUntouched
    /\ (action.pc = "done" /\ action.result.success) =>
          /\ SignSucceeded
          /\ action.result.id = SignedId
          /\ DOMAIN storage.files = {SourceId, SignedId}
          /\ storage.files[SignedId] = sign.result.pdfBuffer
          /\ storage.files[SourceId] = sign.pdfBytes
          /\ storage.temps = <<>>

\* The action returned a failure because a PNG could not be embedded after
\* an image had been drawn, and nothing was stored.
C18_Witness ==
    /\ action.pc = "done"
    /\ ~action.result.success
    /\ SignReturned
    /\ IsPdf(sign.pdfBytes)
    /\ Len(Drawn(sign)) > 0
    /\ StorageUntouched

\* C30: the bounds check comes before the PNG is decoded and embedded.  When
\* sign has returned for a loadable PDF, embedPng was never called for an
\* out-of-range item; the call succeeded if the PNG of every in-range item
\* is good, whatever the payloads of the out-of-range items are; and it
\* failed if the payload of an in-range item is corrupt.
C30_BoundsCheckBeforeDecode ==
    (SignReturned /\ IsPdf(sign.pdfBytes)) =>
        LET items == Range(Work(sign))
            inRange == {item \in items : InRange(item, sign.pdfBytes)}
        IN  /\ \A item \in items \ inRange : EventsOf(sign, "embedPng", item) = {}
            /\ sign.result.success = (\A item \in inRange : IsPng(item))

\* sign returned success for a call whose only corrupt PNG was placed on a
\* page that does not exist, after drawing a good one.
C30_Witness ==
    /\ SignSucceeded
    /\ Len(Drawn(sign)) > 0
    /\ \E item \in Range(Work(sign)) :
          ~InRange(item, sign.pdfBytes) /\ ~IsPng(item)

-----------------------------------------------------------------------------
(* The storage directory: saveFile next to the readFile calls of other     *)
(* requests                                                                *)

MaxReads == 2

\* What fs.readFile gives for a name that is not there.
NotFound == [Document(<<>>) EXCEPT !.header = "ENOENT"]

\* saveFile(buffer): ensureStorageDir, a new id, the temporary file name
CallSaveFile ==
    /\ action.pc = "idle"
    /\ \E buffer \in Documents :
          action' = [NoAction EXCEPT !.pc = "writeFile", !.id = SignedId,
                                     !.buffer = buffer]
    /\ UNCHANGED <<sign, pdfDoc, storage, sanitizeVars, generateVars, reader,
                 parserVars, limiterVars, workflowVars>>

\* readFile(id), also of the download route: fs.readFile of '<id>.pdf'
ReadFileById ==
    /\ Len(reader) < MaxReads
    /\ \E id \in {SourceId, SignedId} :
          reader' = Append(reader,
                       [id |-> id,
                        content |-> IF id \in DOMAIN storage.files
                                    THEN storage.files[id] ELSE NotFound])
    /\ UNCHANGED <<action, sign, pdfDoc, storage, sanitizeVars, generateVars,
                 parserVars, limiterVars, workflowVars>>

InitStorage ==
    /\ html = <<>>
    /\ removed = <<>>
    /\ call = NoCall
    /\ action = NoAction
    /\ sign = NoSign
    /\ pdfDoc = NoDocument
    /\ storage \in {EmptyStorage}
                   \cup {[files |-> (SourceId :> f), temps |-> <<>>] : f \in PdfFiles}
    /\ reader = <<>>
    /\ generate = NoGenerate
    /\ browser = NoBrowser
    /\ parser = NoParser
    /\ rateLimitMap = EmptyMap
    /\ now = 0
    /\ response = NoResponse
    /\ admitted = NoLog
    /\ workflow = NoWorkflow

NextStorage ==
    \/ CallSaveFile
    \/ WriteFile
    \/ Rename
    \/ Unlink
    \/ ReadFileById

SpecStorage == InitStorage /\ [][NextStorage]_vars

\* Every read of the id being saved found no file or the whole buffer.
ReadersSawNothingPartial ==
    \A n \in 1..Len(reader) :
        reader[n].id = SignedId => reader[n].content \in {NotFound, action.buffer}

\* C26 as stated: the file under the final name does not exist or holds the
\* complete buffer, for every reader at every moment; after a failed write
\* or rename the temporary file is removed, no file with the id exists and
\* the error propagates; after a successful saveFile a read of the id gives
\* the buffer.
C26_AtomicAndCleanedUp ==
    /\ ReadersSawNothingPartial
    /\ SignedId \in DOMAIN storage.files => storage.files[SignedId] = action.buffer
    /\ action.pc = "done" =>
          IF action.result.success
          THEN /\ SignedId \in DOMAIN storage.files
               /\ storage.files[SignedId] = action.buffer
          ELSE /\ SignedId \notin DOMAIN storage.files
               /\ SignedId \notin DOMAIN storage.temps
               /\ action.result.error # Undefined

\* C26: the file under the final name does not exist or holds the complete
\* buffer, for every reader at every moment; after a failed write or rename
\* no file exists under the final name, the error propagates, and the
\* temporary file is gone unless it existed and its removal failed; after a
\* successful saveFile a read of the id gives the buffer and no temporary
\* file is left.
C26_AtomicBestEffortCleanup ==
    /\ ReadersSawNothingPartial
    /\ SignedId \in DOMAIN storage.files => storage.files[SignedId] = action.buffer
    /\ action.pc = "done" =>
          IF action.result.success
          THEN /\ SignedId \in DOMAIN storage.files
               /\ storage.files[SignedId] = action.buffer
               /\ SignedId \notin DOMAIN storage.temps
          ELSE /\ SignedId \notin DOMAIN storage.files
               /\ action.result.error # Undefined
               /\ action.cleanup \in {"absent", "removed", "failed"}
               /\ SignedId \in DOMAIN storage.temps <=> action.cleanup = "failed"

\* A reader looked for the id while the temporary file was there and found
\* nothing, and looked again after saveFile had returned and found the
\* buffer.
C26_Witness ==
    /\ action.pc = "done"
    /\ action.result.success
    /\ Len(reader) = 2
    /\ reader[1] = [id |-> SignedId, content |-> NotFound]
    /\ reader[2] = [id |-> SignedId, content |-> action.buffer]

-----------------------------------------------------------------------------
(* PDF generation: generate, one step for each await *)

MaxRenderLen == 1

\* buildHtmlDocument(html): the fragment inside the print shell
buildHtmlDocument(h) == [shell |-> "A4 portrait", container |-> h]

\* page.pdf(...) of the content that was set
PagePdf(validHtml) == [header |-> "%PDF-", content |-> validHtml]

GenerateSuccess(pdfBuffer) ==
    [success |-> TRUE, pdfBuffer |-> pdfBuffer, error |-> Undefined]

GenerateFailure(error) ==
    [success |-> FALSE, pdfBuffer |-> Undefined, error |-> error]

\* an awaited call that completed
Proceed(name, next) ==
    generate' = [generate EXCEPT !.pc = next, !.calls = Append(@, name)]

\* an awaited call that threw: catch (error) { return {success: false, error} },
\* with the finally block still to run
Catch(name, error) ==
    generate' = [generate EXCEPT !.pc = "finally", !.calls = Append(@, name),
                                 !.result = GenerateFailure(error)]

\* generate(html, options)
CallGenerate ==
    /\ generate.pc = "idle"
    /\ generate' = [generate EXCEPT !.pc = "launch"]
    /\ UNCHANGED <<browser, sanitizeVars, signVars,
                 parserVars, limiterVars, workflowVars>>

\* const { chromium } = await import('playwright');
\* browser = await chromium.launch({ headless: true })
Launch ==
    /\ generate.pc = "launch"
    /\ \E launched \in BOOLEAN :
          IF launched
          THEN Proceed("launch", "newContext") /\ browser' = "open"
          ELSE Catch("launch", "launch failed") /\ UNCHANGED browser
    /\ UNCHANGED <<sanitizeVars, signVars,
                 parserVars, limiterVars, workflowVars>>

\* const context = await browser.newContext()
NewContext ==
    /\ generate.pc = "newContext"
    /\ \E ok \in BOOLEAN :
          IF ok THEN Proceed("newContext", "newPage")
          ELSE Catch("newContext", "newContext failed")
    /\ UNCHANGED <<browser, sanitizeVars, signVars,
                 parserVars, limiterVars, workflowVars>>

\* const page = await context.newPage()
NewPage ==
    /\ generate.pc = "newPage"
    /\ \E ok \in BOOLEAN :
          IF ok THEN Proceed("newPage", "sanitize")
          ELSE Catch("newPage", "newPage failed")
    /\ UNCHANGED <<browser, sanitizeVars, signVars,
                 parserVars, limiterVars, workflowVars>>

\* const safeHtml = await sanitizeHtml(html)
Sanitize ==
    /\ generate.pc = "sanitize"
    /\ \E r \in {sanitizeHtml(removed, html, FALSE, FALSE)} :
          /\ removed' = r.removed
          /\ IF r.outcome = "returned"
             THEN generate' = [generate EXCEPT !.pc = "setContent",
                                               !.calls = Append(@, "sanitizeHtml"),
                                               !.safeHtml = r.value]
             ELSE Catch("sanitizeHtml", r.outcome)
    /\ UNCHANGED <<html, call, browser, signVars,
                 parserVars, limiterVars, workflowVars>>

\* await page.setContent(validHtml, { waitUntil: 'networkidle', timeout: 30000 })
SetContent ==
    /\ generate.pc = "setContent"
    /\ \E outcome \in {"loaded", "failed", "timeout"} :
          IF outcome = "loaded" THEN Proceed("setContent", "pdf")
          ELSE IF outcome = "failed" THEN Catch("setContent", "setContent failed")
          ELSE Catch("setContent", "Timeout 30000ms exceeded")
    /\ UNCHANGED <<browser, sanitizeVars, signVars,
                 parserVars, limiterVars, workflowVars>>

\* const pdfBuffer = await page.pdf(...); return {success: true, pdfBuffer},
\* with the finally block still to run
Pdf ==
    /\ generate.pc = "pdf"
    /\ \E printed \in BOOLEAN :
          IF printed
          THEN generate' = [generate EXCEPT
                  !.pc = "finally", !.calls = Append(@, "pdf"),
                  !.result = GenerateSuccess(
                                PagePdf(buildHtmlDocument(generate.safeHtml)))]
          ELSE Catch("pdf", "pdf failed")
    /\ UNCHANGED <<browser, sanitizeVars, signVars,
                 parserVars, limiterVars, workflowVars>>

Finally_OnSuccessOnly ==
    /\ generate.pc = "finally"
    /\ IF browser = NoBrowser \/ ~generate.result.success
       THEN /\ generate' = [generate EXCEPT !.pc = "returned"]
            /\ UNCHANGED browser
       ELSE /\ browser' = "closed"
            /\ generate' = [generate EXCEPT !.pc = "returned",
                                            !.calls = Append(@, "close")]
    /\ UNCHANGED <<sanitizeVars, signVars,
                 parserVars, limiterVars, workflowVars>>

\* finally { if (browser) { await browser.close() } }: when close rejects,
\* the rejection replaces the value that was about to be returned, and the
\* browser may or may not be gone
Finally ==
    /\ generate.pc = "finally"
    /\ IF browser = NoBrowser
       THEN /\ generate' = [generate EXCEPT !.pc = "returned"]
            /\ UNCHANGED browser
       ELSE \E closed \in BOOLEAN, gone \in BOOLEAN :
               /\ closed => gone
               /\ browser' = IF gone THEN "closed" ELSE "open"
               /\ generate' = [generate EXCEPT
                     !.pc = IF closed THEN "returned" ELSE "thrown",
                     !.calls = Append(@, "close"),
                     !.result = IF closed THEN @ ELSE GenerateFailure("close failed")]
    /\ UNCHANGED <<sanitizeVars, signVars,
                 parserVars, limiterVars, workflowVars>>

InitGenerate ==
    /\ html \in SeqsUpTo(Tokens, MaxRenderLen)
    /\ removed = <<>>
    /\ call = NoCall
    /\ action = NoAction
    /\ sign = NoSign
    /\ pdfDoc = NoDocument
    /\ storage = EmptyStorage
    /\ reader = <<>>
    /\ generate = NoGenerate
    /\ browser = NoBrowser
    /\ parser = NoParser
    /\ rateLimitMap = EmptyMap
    /\ now = 0
    /\ response = NoResponse
    /\ admitted = NoLog
    /\ workflow = NoWorkflow

NextGenerate ==
    \/ CallGenerate
    \/ Launch
    \/ NewContext
    \/ NewPage
    \/ Sanitize
    \/ SetContent
    \/ Pdf
    \/ Finally

SpecGenerate == InitGenerate /\ [][NextGenerate]_vars

-----------------------------------------------------------------------------
(* PDF generation: properties *)

GenerateCompleted == generate.pc \in {"returned", "thrown"}

CloseCalls == {n \in 1..Len(generate.calls) : generate.calls[n] = "close"}

Launched ==
    \E n \in 1..Len(generate.calls) :
        generate.calls[n] = "launch" /\ n < Len(generate.calls)

\* C19 as stated: when generate has completed, no browser it launched is
\* open, whichever call failed, and close was called at most once.
C19_BrowserClosedOnEveryPath ==
    /\ GenerateCompleted => browser # "open"
    /\ Cardinality(CloseCalls) <= 1

\* C19: when generate has completed after a successful launch, close was
\* called exactly once, as the last call, whichever of newContext, newPage,
\* sanitization, setContent and pdf failed or none; the browser is closed if
\* close resolved; and when launch failed close was never called and there
\* is no browser.
C19_CloseCalledOnEveryPath ==
    /\ Cardinality(CloseCalls) <= 1
    /\ (GenerateCompleted /\ Launched) =>
          /\ CloseCalls = {Len(generate.calls)}
          /\ generate.pc = "returned" => browser = "closed"
    /\ (GenerateCompleted /\ ~Launched) =>
          /\ CloseCalls = {}
          /\ browser = NoBrowser

\* generate returned a failure because page.pdf failed, and the browser it
\* had launched is closed.
C19_Witness ==
    /\ generate.pc = "returned"
    /\ ~generate.result.success
    /\ Len(generate.calls) >= 2
    /\ generate.calls[Len(generate.calls) - 1] = "pdf"
    /\ browser = "closed"

\* C20 as stated: generate never throws to its caller; it completes with
\* {success: true, pdfBuffer} only when page.pdf completed, and with
\* {success: false, error} and no pdfBuffer when a call failed.
C20_AlwaysTaggedResult ==
    /\ generate.pc # "thrown"
    /\ generate.pc = "returned" =>
          IF generate.result.success
          THEN /\ Len(generate.calls) >= 2
               /\ generate.calls[Len(generate.calls) - 1] = "pdf"
               /\ generate.result.pdfBuffer
                    = PagePdf(buildHtmlDocument(generate.safeHtml))
          ELSE /\ generate.result.pdfBuffer = Undefined
               /\ generate.result.error # Undefined

\* What does hold: whenever generate returns, it returns a tagged result
\* as C20 describes.
TaggedResultWhenReturned ==
    generate.pc = "returned" =>
        IF generate.result.success
        THEN /\ generate.calls[Len(generate.calls) - 1] = "pdf"
             /\ generate.result.pdfBuffer
                  = PagePdf(buildHtmlDocument(generate.safeHtml))
        ELSE /\ generate.result.pdfBuffer = Undefined
             /\ generate.result.error # Undefined

-----------------------------------------------------------------------------
(* The document parser: validateFile and parseDocx.  A file name is the    *)
(* sequence of its characters; the DOCX converter (mammoth) is not part of *)
(* the program: it returns some HTML or throws.                            *)

MAX_FILE_SIZE == 10 * 1024 * 1024

DocxMimeType == "application/vnd.openxmlformats-officedocument.wordprocessingml.document"

ALLOWED_MIME_TYPES == {DocxMimeType}

MaxConvertedLen == 2

\* String.prototype.toLowerCase on the characters that occur in the names
ToLowerCaseChar(c) ==
    CASE c = "A" -> "a" [] c = "D" -> "d" [] c = "O" -> "o"
      [] c = "C" -> "c" [] c = "X" -> "x" [] c = "P" -> "p"
      [] c = "F" -> "f" [] OTHER -> c

ToLowerCase(name) == [i \in 1..Len(name) |-> ToLowerCaseChar(name[i])]

\* String.prototype.endsWith
EndsWith(name, suffix) ==
    /\ Len(name) >= Len(suffix)
    /\ SubSeq(name, Len(name) - Len(suffix) + 1, Len(name)) = suffix

DotDocx == <<".", "d", "o", "c", "x">>

Names ==
    { <<"a", ".", "d", "o", "c", "x">>,
      <<"A", ".", "D", "O", "C", "X">>,
      <<"a", ".", "D", "o", "c", "X">>,
      <<"a", " ", "&", ".", "d", "o", "c", "x">>,
      <<"a", ".", "p", "d", "f", ".", "d", "o", "c", "x">>,
      <<"a", ".", "d", "o", "c", "x", ".", "p", "d", "f">>,
      <<"a", ".", "p", "d", "f">>,
      <<"a", ".", "d", "o", "c">>,
      <<"a", "d", "o", "c", "x">>,
      <<".", "d", "o", "c", "x">>,
      <<"a", ".", "d", "o", "c", "x", " ">>,
      <<>> }

Sizes == {0, 1, 5000, MAX_FILE_SIZE - 1, MAX_FILE_SIZE, MAX_FILE_SIZE + 1}

\* file.type: not given, the empty string of a File whose type the browser
\* does not know, the DOCX type and two others.
Types == {Undefined, "", DocxMimeType, "application/msword", "application/pdf"}

Files == [name : Names, size : Sizes, type : Types]

\* null, and a ParseError
Null == [code |-> "null", message |-> ""]

ParseError(code, message) == [code |-> code, message |-> message]

\* `File size must be less than ${MAX_FILE_SIZE / 1024 / 1024}MB`
TooLargeMessage == "File size must be less than 10MB"

\* validateFile that also rejects a file of exactly MAX_FILE_SIZE bytes.
validateFile_LimitRejected(file) ==
    IF ~EndsWith(ToLowerCase(file.name), DotDocx)
    THEN ParseError("INVALID_FILE_TYPE", "Only .docx files are supported")
    ELSE IF file.size >= MAX_FILE_SIZE
    THEN ParseError("FILE_TOO_LARGE", TooLargeMessage)
    ELSE IF file.size = 0
    THEN ParseError("EMPTY_FILE", "File is empty")
    ELSE IF file.type \notin {Undefined, ""} /\ file.type \notin ALLOWED_MIME_TYPES
    THEN ParseError("INVALID_FILE_TYPE", "Invalid file type. Please upload a .docx file.")
    ELSE Null

\* validateFile(file)
validateFile(file) ==
    IF ~EndsWith(ToLowerCase(file.name), DotDocx)
    THEN ParseError("INVALID_FILE_TYPE", "Only .docx files are supported")
    ELSE IF file.size > MAX_FILE_SIZE
    THEN ParseError("FILE_TOO_LARGE", TooLargeMessage)
    ELSE IF file.size = 0
    THEN ParseError("EMPTY_FILE", "File is empty")
    ELSE IF file.type \notin {Undefined, ""} /\ file.type \notin ALLOWED_MIME_TYPES
    THEN ParseError("INVALID_FILE_TYPE", "Invalid file type. Please upload a .docx file.")
    ELSE Null

\* What the converter can do with the bytes: throw an Error with one of the
\* messages the catch block looks for or with another one, throw something
\* that is not an Error, or return HTML, which may be empty or blank.
ConvertedTokens ==
    { Open("p", <<>>), Close("p"), Open("script", <<>>), Comment,
      Text("x"), Text(" ") }

Thrown ==
    { [isError |-> TRUE, message |-> "Could not find file in options"],
      [isError |-> TRUE, message |-> "End of data reached (data length = 100)"],
      [isError |-> TRUE, message |-> "Can't find end of central directory"],
      [isError |-> FALSE, message |-> "boom"] }

NotThrown == [isError |-> FALSE, message |-> ""]

ConverterOutcomes ==
    [threw : {TRUE}, error : Thrown, value : {<<>>}]
      \cup [threw : {FALSE}, error : {NotThrown},
            value : SeqsUpTo(ConvertedTokens, MaxConvertedLen)]

NotConverted == [threw |-> FALSE, error |-> NotThrown, value |-> <<>>]

NoData == [html |-> <<>>, filename |-> <<>>, sizeBytes |-> 0]

ParseSuccess(data) == [success |-> TRUE, data |-> data, error |-> Null]

ParseFailure(error) == [success |-> FALSE, data |-> NoData, error |-> error]

\* The catch block of parseDocx
CatchParse(error) ==
    ParseFailure(ParseError("PARSE_FAILED",
        IF error.isError /\ error.message = "Could not find file in options"
        THEN "Invalid DOCX file: file structure is corrupted"
        ELSE IF error.isError /\ error.message = "End of data reached (data length = 100)"
        THEN "Invalid DOCX file: file is truncated or corrupted"
        ELSE IF error.isError THEN error.message
        ELSE "Failed to parse document"))

\* validateFile(file)
CallValidateFile ==
    /\ parser.pc = "idle"
    /\ \E file \in Files :
          parser' = [NoParser EXCEPT !.pc = "returned", !.op = "validateFile",
                                     !.file = file, !.result = validateFile(file)]
    /\ UNCHANGED <<sanitizeVars, signVars, generateVars, limiterVars, workflowVars>>

\* parseDocx(file, filename)
CallParseDocx ==
    /\ parser.pc = "idle"
    /\ \E name \in Names, byteLength \in Sizes :
          parser' = [NoParser EXCEPT !.pc = "size", !.op = "parseDocx",
                                     !.file = [name |-> name, size |-> byteLength,
                                               type |-> Undefined],
                                     !.converted = NotConverted]
    /\ UNCHANGED <<sanitizeVars, signVars, generateVars, limiterVars, workflowVars>>

\* The two checks of file.byteLength
CheckSize ==
    /\ parser.pc = "size"
    /\ parser' =
          IF parser.file.size > MAX_FILE_SIZE
          THEN [parser EXCEPT !.pc = "returned",
                  !.result = ParseFailure(ParseError("FILE_TOO_LARGE", TooLargeMessage))]
          ELSE IF parser.file.size = 0
          THEN [parser EXCEPT !.pc = "returned",
                  !.result = ParseFailure(ParseError("EMPTY_FILE", "File is empty"))]
          ELSE [parser EXCEPT !.pc = "convert"]
    /\ UNCHANGED <<sanitizeVars, signVars, generateVars, limiterVars, workflowVars>>

\* import('mammoth'), mammoth.convertToHtml and the check of result.value
ConvertToHtml ==
    /\ parser.pc = "convert"
    /\ \E c \in ConverterOutcomes :
          parser' =
             IF c.threw
             THEN [parser EXCEPT !.pc = "returned", !.converted = c,
                                 !.calls = Append(@, "convertToHtml"),
                                 !.result = CatchParse(c.error)]
             ELSE IF c.value = <<>> \/ Len(Trim(c.value)) = 0
             THEN [parser EXCEPT !.pc = "returned", !.converted = c,
                     !.calls = Append(@, "convertToHtml"),
                     !.result = ParseFailure(ParseError("PARSE_FAILED",
                         "Document appears to be empty or could not be parsed"))]
             ELSE [parser EXCEPT !.pc = "sanitize", !.converted = c,
                                 !.calls = Append(@, "convertToHtml")]
    /\ UNCHANGED <<sanitizeVars, signVars, generateVars, limiterVars, workflowVars>>

\* this.sanitizeHtml(result.value) outside the try block.
SanitizeConverted_Uncaught ==
    /\ parser.pc = "sanitize"
    /\ \E r \in {sanitizeHtml(removed, parser.converted.value, FALSE, TRUE)} :
          /\ removed' = r.removed
          /\ parser' =
                IF r.outcome = "returned"
                THEN [parser EXCEPT !.pc = "returned",
                        !.calls = Append(@, "sanitizeHtml"),
                        !.result = ParseSuccess([html |-> r.value,
                                                 filename |-> parser.file.name,
                                                 sizeBytes |-> parser.file.size])]
                ELSE [parser EXCEPT !.pc = "thrown",
                        !.calls = Append(@, "sanitizeHtml")]
    /\ UNCHANGED <<html, call, signVars, generateVars, limiterVars, workflowVars>>

\* this.sanitizeHtml(result.value), the metadata and the result; an
\* exception of the sanitizer is caught like one of the converter.
SanitizeConverted ==
    /\ parser.pc = "sanitize"
    /\ \E r \in {sanitizeHtml(removed, parser.converted.value, FALSE, TRUE)} :
          /\ removed' = r.removed
          /\ parser' =
                IF r.outcome = "returned"
                THEN [parser EXCEPT !.pc = "returned",
                        !.calls = Append(@, "sanitizeHtml"),
                        !.result = ParseSuccess([html |-> r.value,
                                                 filename |-> parser.file.name,
                                                 sizeBytes |-> parser.file.size])]
                ELSE [parser EXCEPT !.pc = "returned",
                        !.calls = Append(@, "sanitizeHtml"),
                        !.result = CatchParse([isError |-> TRUE, message |-> r.outcome])]
    /\ UNCHANGED <<html, call, signVars, generateVars, limiterVars, workflowVars>>

InitParser ==
    /\ html = <<>>
    /\ removed = <<>>
    /\ call = NoCall
    /\ action = NoAction
    /\ sign = NoSign
    /\ pdfDoc = NoDocument
    /\ storage = EmptyStorage
    /\ reader = <<>>
    /\ generate = NoGenerate
    /\ browser = NoBrowser
    /\ parser = NoParser
    /\ rateLimitMap = EmptyMap
    /\ now = 0
    /\ response = NoResponse
    /\ admitted = NoLog
    /\ workflow = NoWorkflow

NextParser ==
    \/ CallValidateFile
    \/ CallParseDocx
    \/ CheckSize
    \/ ConvertToHtml
    \/ SanitizeConverted

SpecParser == InitParser /\ [][NextParser]_vars

\* The name ends with ".docx" in any mix of upper and lower case.
HasDocxExtension(name) ==
    /\ Len(name) >= 5
    /\ LET k == Len(name) - 5
       IN  /\ name[k + 1] = "."
           /\ name[k + 2] \in {"d", "D"}
           /\ name[k + 3] \in {"o", "O"}
           /\ name[k + 4] \in {"c", "C"}
           /\ name[k + 5] \in {"x", "X"}

\* No type was given: the property is missing or holds the empty string.
TypeAbsent(file) == file.type \in {Undefined, ""}

\* C22: validateFile returns null exactly when the name ends with ".docx" in
\* any case, the size is positive and at most MAX_FILE_SIZE, and the type is
\* absent or the DOCX type; otherwise it returns the error of the first
\* failing check: extension, size above the limit, size 0, type.
C22_ValidateFile ==
    (parser.op = "validateFile" /\ parser.pc = "returned") =>
        LET file == parser.file
            extension == HasDocxExtension(file.name)
            typeOk == TypeAbsent(file) \/ file.type = DocxMimeType
        IN  /\ (parser.result = Null) =
                  (extension /\ 0 < file.size /\ file.size <= MAX_FILE_SIZE /\ typeOk)
            /\ parser.result.code =
                  (IF ~extension THEN "INVALID_FILE_TYPE"
                   ELSE IF file.size > MAX_FILE_SIZE THEN "FILE_TOO_LARGE"
                   ELSE IF file.size = 0 THEN "EMPTY_FILE"
                   ELSE IF ~typeOk THEN "INVALID_FILE_TYPE"
                   ELSE "null")

\* A file of exactly MAX_FILE_SIZE bytes with an upper-case extension and no
\* type is accepted.
C22_Witness ==
    /\ parser.op = "validateFile"
    /\ parser.pc = "returned"
    /\ parser.file.size = MAX_FILE_SIZE
    /\ parser.file.name = <<"A", ".", "D", "O", "C", "X">>
    /\ parser.file.type = Undefined
    /\ parser.result = Null

\* C23: parseDocx never throws.  A buffer above MAX_FILE_SIZE gives
\* FILE_TOO_LARGE and an empty one EMPTY_FILE, without the converter being
\* called; a converter that throws or returns nothing but white space gives
\* PARSE_FAILED; and the html of a success is what the sanitizer returns for
\* the converter's HTML.
C23_ParseDocx ==
    parser.op = "parseDocx" =>
        /\ parser.pc # "thrown"
        /\ parser.pc = "returned" =>
              /\ parser.file.size > MAX_FILE_SIZE =>
                    /\ ~parser.result.success
                    /\ parser.result.error.code = "FILE_TOO_LARGE"
                    /\ parser.calls = <<>>
              /\ parser.file.size = 0 =>
                    /\ ~parser.result.success
                    /\ parser.result.error.code = "EMPTY_FILE"
                    /\ parser.calls = <<>>
              /\ (parser.converted.threw
                    \/ (parser.calls # <<>>
                          /\ \A i \in 1..Len(parser.converted.value) :
                                IsWs(parser.converted.value[i]))) =>
                    /\ ~parser.result.success
                    /\ parser.result.error.code = "PARSE_FAILED"
              /\ parser.result.success =>
                    /\ parser.calls = <<"convertToHtml", "sanitizeHtml">>
                    /\ parser.result.data.html =
                          sanitizeHtml(<<>>, parser.converted.value, FALSE, TRUE).value

\* A success whose html is not what the converter returned, and a sanitizer
\* exception that came back as PARSE_FAILED.
C23_Witness ==
    /\ parser.op = "parseDocx"
    /\ parser.pc = "returned"
    /\ parser.calls = <<"convertToHtml", "sanitizeHtml">>
    /\ \/ /\ parser.result.success
          /\ parser.result.data.html # parser.converted.value
       \/ /\ ~parser.result.success
          /\ parser.result.error.code = "PARSE_FAILED"

-----------------------------------------------------------------------------
(* The middleware's rate limiter.  Time is Date.now() in milliseconds; it  *)
(* advances between requests by one millisecond or by a whole window.      *)

RATE_LIMIT_WINDOW == 60 * 1000

MAX_REQUESTS == 20

MaxTicks == 2

MaxRejected == 1

Delays == {1, RATE_LIMIT_WINDOW}

\* The readings of the clock after at most n advances
RECURSIVE Times(_)
Times(n) ==
    IF n = 0 THEN {0}
    ELSE Times(n - 1) \cup {t + d : t \in Times(n - 1), d \in Delays}

\* request.headers.get('x-forwarded-for'), "" when the header is missing
Headers == {"203.0.113.7", ""}

\* request.headers.get('x-forwarded-for') || 'unknown'
ClientIp(header) == IF header = "" THEN "unknown" ELSE header

IPs == {ClientIp(h) : h \in Headers}

Paths == {"/api/sign", "/"}

Methods == {"GET", "POST"}

\* request.nextUrl.pathname.startsWith('/api/') || request.method === 'POST'
IsRateLimited(path, method) == path = "/api/sign" \/ method = "POST"

\* rateLimitMap.get(ip)
Get(map, ip) == IF ip \in DOMAIN map THEN map[ip] ELSE NoRecord

\* rateLimitMap.set(ip, record)
Set(map, ip, record) == (ip :> record) @@ map

\* rateLimitMap.delete(ip) for every ip of a set
Delete(map, ips) ==
    IF DOMAIN map \subseteq ips THEN EmptyMap
    ELSE [ip \in DOMAIN map \ ips |-> map[ip]]

\* A limiter that starts a new window at every request it admits.
RateLimit_Sliding(map, ip, t) ==
    LET found == Get(map, ip)
        record == IF found = NoRecord \/ t - found.lastReset > RATE_LIMIT_WINDOW
                  THEN [count |-> 0, lastReset |-> t]
                  ELSE found
        counted == [record EXCEPT !.count = @ + 1]
    IN  [map |-> Set(map, ip, IF counted.count > MAX_REQUESTS THEN counted
                              ELSE [counted EXCEPT !.lastReset = t]),
         status |-> IF counted.count > MAX_REQUESTS THEN 429 ELSE 200]

\* The rate-limiting block of the middleware for a request of ip at time t:
\* the map after it and the status of the answer.
RateLimit(map, ip, t) ==
    LET found == Get(map, ip)
        record == IF found = NoRecord \/ t - found.lastReset > RATE_LIMIT_WINDOW
                  THEN [count |-> 0, lastReset |-> t]
                  ELSE found
        counted == [record EXCEPT !.count = @ + 1]
    IN  [map |-> Set(map, ip, counted),
         status |-> IF counted.count > MAX_REQUESTS THEN 429 ELSE 200]

\* The log without the entries that are a window old.
Recent(entries, t) ==
    SelectSeq(entries, LAMBDA e : t - e.at < RATE_LIMIT_WINDOW)

\* middleware(request)
Middleware(header, path, method) ==
    LET ip == ClientIp(header)
        limited == IsRateLimited(path, method)
        r == IF limited THEN RateLimit(rateLimitMap, ip, now)
             ELSE [map |-> rateLimitMap, status |-> 200]
    IN  /\ limited =>
              Get(rateLimitMap, ip).count < MAX_REQUESTS + MaxRejected
                 \/ now - Get(rateLimitMap, ip).lastReset > RATE_LIMIT_WINDOW
        /\ rateLimitMap' = r.map
        /\ response' = [ip |-> ip, limited |-> limited, at |-> now,
                        before |-> Get(rateLimitMap, ip), status |-> r.status]
        /\ admitted' =
              IF admitted.on /\ limited /\ r.status = 200
              THEN [admitted EXCEPT
                      !.entries = Append(Recent(@, now), [ip |-> ip, at |-> now])]
              ELSE admitted
        /\ UNCHANGED <<now, sanitizeVars, signVars, generateVars, parserVars,
                       workflowVars>>

\* A request of any client
Request ==
    \E header \in Headers, path \in Paths, method \in Methods :
       Middleware(header, path, method)

\* A request of the one client whose admitted requests are counted
RequestOfOne ==
    \E path \in Paths, method \in Methods :
       Middleware("203.0.113.7", path, method)

\* Time passes.
Tick ==
    /\ \E d \in Delays :
          /\ now + d \in Times(MaxTicks)
          /\ now' = now + d
          /\ admitted' = [admitted EXCEPT !.entries = Recent(@, now + d)]
    /\ UNCHANGED <<rateLimitMap, response, sanitizeVars, signVars, generateVars,
                   parserVars, workflowVars>>

\* The callback of setInterval(..., RATE_LIMIT_WINDOW)
Cleanup ==
    /\ now >= RATE_LIMIT_WINDOW
    /\ rateLimitMap' =
          Delete(rateLimitMap,
                 {ip \in DOMAIN rateLimitMap :
                     now - rateLimitMap[ip].lastReset > RATE_LIMIT_WINDOW})
    /\ UNCHANGED <<now, response, admitted, sanitizeVars, signVars, generateVars,
                   parserVars, workflowVars>>

InitLimiter ==
    /\ html = <<>>
    /\ removed = <<>>
    /\ call = NoCall
    /\ action = NoAction
    /\ sign = NoSign
    /\ pdfDoc = NoDocument
    /\ storage = EmptyStorage
    /\ reader = <<>>
    /\ generate = NoGenerate
    /\ browser = NoBrowser
    /\ parser = NoParser
    /\ rateLimitMap = EmptyMap
    /\ now = 0
    /\ response = NoResponse
    /\ admitted = NoLog
    /\ workflow = NoWorkflow

NextLimiter ==
    \/ Request
    \/ Tick
    \/ Cleanup

SpecLimiter == InitLimiter /\ [][NextLimiter]_vars

\* One client, with its admitted requests on record
InitWindow ==
    /\ html = <<>>
    /\ removed = <<>>
    /\ call = NoCall
    /\ action = NoAction
    /\ sign = NoSign
    /\ pdfDoc = NoDocument
    /\ storage = EmptyStorage
    /\ reader = <<>>
    /\ generate = NoGenerate
    /\ browser = NoBrowser
    /\ parser = NoParser
    /\ rateLimitMap = EmptyMap
    /\ now = 0
    /\ response = NoResponse
    /\ admitted = [on |-> TRUE, entries |-> <<>>]
    /\ workflow = NoWorkflow

NextWindow ==
    \/ RequestOfOne
    \/ Tick
    \/ Cleanup

SpecWindow == InitWindow /\ [][NextWindow]_vars

\* C24: no client has more than MAX_REQUESTS rate-limited requests admitted
\* within RATE_LIMIT_WINDOW: the admitted requests that are less than a
\* window old are never more than MAX_REQUESTS per IP.
C24_AtMostMaxPerWindow ==
    \A ip \in IPs :
       Cardinality({i \in DOMAIN admitted.entries :
                       /\ admitted.entries[i].ip = ip
                       /\ now - admitted.entries[i].at < RATE_LIMIT_WINDOW})
          <= MAX_REQUESTS

\* The step is a request that the middleware rate-limits.
LimitedRequest == response' # response /\ response'.limited

\* The step is a run of the cleanup callback that deleted something.
CleanupStep == rateLimitMap' # rateLimitMap /\ response' = response

\* C25: windows are fixed and per IP.  A rate-limited request that finds a
\* record not older than the window leaves lastReset alone and counts,
\* admitted or not; one that finds an older record, for instance of a client
\* that was answered 429, is admitted and starts a window with count 1;
\* no request changes the record of another IP; and after the cleanup has
\* deleted records every later request of every IP is answered, and leaves
\* its record, as it would have without the cleanup.
C25_FixedWindowsPerIp ==
    [][/\ LimitedRequest =>
             LET ip == response'.ip
                 before == response'.before
                 after == Get(rateLimitMap', ip)
             IN  /\ (before # NoRecord
                       /\ response'.at - before.lastReset <= RATE_LIMIT_WINDOW) =>
                        /\ after.lastReset = before.lastReset
                        /\ after.count = before.count + 1
                        /\ (response'.status = 429) = (after.count > MAX_REQUESTS)
                 /\ (before # NoRecord
                       /\ response'.at - before.lastReset > RATE_LIMIT_WINDOW) =>
                        /\ response'.status = 200
                        /\ after = [count |-> 1, lastReset |-> response'.at]
                 /\ \A other \in IPs \ {ip} :
                       Get(rateLimitMap', other) = Get(rateLimitMap, other)
       /\ CleanupStep =>
             \A ip \in IPs, t \in {u \in Times(MaxTicks + 1) : u >= now} :
                LET with == RateLimit(rateLimitMap', ip, t)
                    without == RateLimit(rateLimitMap, ip, t)
                IN  /\ with.status = without.status
                    /\ Get(with.map, ip) = Get(without.map, ip)
      ]_vars

\* A client that was answered 429 is admitted again, with count 1, while
\* another client has a record of its own.
C25_Witness ==
    /\ response.limited
    /\ response.before.count > MAX_REQUESTS
    /\ response.status = 200
    /\ Get(rateLimitMap, response.ip) = [count |-> 1, lastReset |-> response.at]
    /\ \E other \in IPs \ {response.ip} : Get(rateLimitMap, other) # NoRecord

-----------------------------------------------------------------------------
(* The workflow of the editor: workflowReducer *)

WORKFLOW_STEPS == <<"upload", "edit", "sign", "download">>

\* getStepIndex(step)
getStepIndex(step) ==
    CHOOSE i \in 1..Len(WORKFLOW_STEPS) : WORKFLOW_STEPS[i] = step

\* The actions that can be dispatched, with payloads from small sets, and
\* an action of a type the reducer does not know.
WorkflowActions ==
    [type : {"UPLOAD_PROGRESS"}, progress : {0, 50, 100}]
      \cup [type : {"UPLOAD_ERROR"}, error : {"Upload failed"}]
      \cup [type : {"UPLOAD_COMPLETE"}, filename : {"a.docx", "b.docx"},
            htmlContent : {"<p>a</p>"}]
      \cup [type : {"UPDATE_CONTENT"}, htmlContent : {"<p>a</p>", "<p>b</p>"}]
      \cup [type : {"EDIT_COMPLETE"}, pdfId : {"pdf-1"}]
      \cup [type : {"SIGNATURE_UPDATE"}, hasSignature : BOOLEAN]
      \cup [type : {"SIGN_COMPLETE"}, signedPdfId : {"signed-1"}]
      \cup [type : {"RESET", "GO_BACK", "UNKNOWN"}]

\* A reducer whose EDIT_COMPLETE does not look at the step.
workflowReducer_SignFromAnywhere(state, a) ==
    CASE a.type = "UPLOAD_PROGRESS" ->
            IF state.step # "upload" THEN state
            ELSE [state EXCEPT !.progress = a.progress]
      [] a.type = "UPLOAD_ERROR" ->
            IF state.step # "upload" THEN state
            ELSE [state EXCEPT !.error = a.error, !.progress = 0]
      [] a.type = "UPLOAD_COMPLETE" ->
            [step |-> "edit", filename |-> a.filename,
             htmlContent |-> a.htmlContent, isDirty |-> FALSE]
      [] a.type = "UPDATE_CONTENT" ->
            IF state.step # "edit" THEN state
            ELSE [state EXCEPT !.htmlContent = a.htmlContent, !.isDirty = TRUE]
      [] a.type = "EDIT_COMPLETE" ->
            [step |-> "sign",
             filename |-> IF state.step = "upload" THEN Undefined ELSE state.filename,
             pdfId |-> a.pdfId, hasSignature |-> FALSE]
      [] a.type = "SIGNATURE_UPDATE" ->
            IF state.step # "sign" THEN state
            ELSE [state EXCEPT !.hasSignature = a.hasSignature]
      [] a.type = "SIGN_COMPLETE" ->
            IF state.step # "sign" THEN state
            ELSE [step |-> "download", filename |-> state.filename,
                  signedPdfId |-> a.signedPdfId]
      [] a.type = "GO_BACK" ->
            CASE state.step = "edit" -> getInitialState
              [] state.step = "sign" -> getInitialState
              [] state.step = "download" -> getInitialState
              [] OTHER -> state
      [] a.type = "RESET" -> getInitialState
      [] OTHER -> state

\* workflowReducer(state, action)
workflowReducer(state, a) ==
    CASE a.type = "UPLOAD_PROGRESS" ->
            IF state.step # "upload" THEN state
            ELSE [state EXCEPT !.progress = a.progress]
      [] a.type = "UPLOAD_ERROR" ->
            IF state.step # "upload" THEN state
            ELSE [state EXCEPT !.error = a.error, !.progress = 0]
      [] a.type = "UPLOAD_COMPLETE" ->
            [step |-> "edit", filename |-> a.filename,
             htmlContent |-> a.htmlContent, isDirty |-> FALSE]
      [] a.type = "UPDATE_CONTENT" ->
            IF state.step # "edit" THEN state
            ELSE [state EXCEPT !.htmlContent = a.htmlContent, !.isDirty = TRUE]
      [] a.type = "EDIT_COMPLETE" ->
            IF state.step # "edit" THEN state
            ELSE [step |-> "sign", filename |-> state.filename,
                  pdfId |-> a.pdfId, hasSignature |-> FALSE]
      [] a.type = "SIGNATURE_UPDATE" ->
            IF state.step # "sign" THEN state
            ELSE [state EXCEPT !.hasSignature = a.hasSignature]
      [] a.type = "SIGN_COMPLETE" ->
            IF state.step # "sign" THEN state
            ELSE [step |-> "download", filename |-> state.filename,
                  signedPdfId |-> a.signedPdfId]
      [] a.type = "GO_BACK" ->
            CASE state.step = "edit" -> getInitialState
              [] state.step = "sign" -> getInitialState
              [] state.step = "download" -> getInitialState
              [] OTHER -> state
      [] a.type = "RESET" -> getInitialState
      [] OTHER -> state

\* dispatch(action)
Dispatch ==
    /\ \E a \in WorkflowActions :
          LET next == workflowReducer(workflow.state, a)
          IN  workflow' = [state |-> next, action |-> a, before |-> workflow.state,
                           visited |-> IF next.step = "upload" THEN {"upload"}
                                       ELSE workflow.visited \cup {next.step}]
    /\ UNCHANGED <<sanitizeVars, signVars, generateVars, parserVars, limiterVars>>

InitWorkflow ==
    /\ html = <<>>
    /\ removed = <<>>
    /\ call = NoCall
    /\ action = NoAction
    /\ sign = NoSign
    /\ pdfDoc = NoDocument
    /\ storage = EmptyStorage
    /\ reader = <<>>
    /\ generate = NoGenerate
    /\ browser = NoBrowser
    /\ parser = NoParser
    /\ rateLimitMap = EmptyMap
    /\ now = 0
    /\ response = NoResponse
    /\ admitted = NoLog
    /\ workflow = NoWorkflow

NextWorkflow == Dispatch

SpecWorkflow == InitWorkflow /\ [][NextWorkflow]_vars

\* The last action took the workflow into the step from another one.
Entered(step) == workflow.state.step = step /\ workflow.before.step # step

\* C27: no action advances the workflow by more than one step.  The sign
\* step is entered only from edit by EDIT_COMPLETE, with hasSignature false;
\* the download step only from sign by SIGN_COMPLETE, after an edit and a
\* sign state since the last upload state; and whenever UPLOAD_COMPLETE or a
\* change of step produces an edit state, its isDirty is false.
C27_OneStepAtATime ==
    /\ getStepIndex(workflow.state.step) <= getStepIndex(workflow.before.step) + 1
    /\ Entered("sign") =>
          /\ workflow.before.step = "edit"
          /\ workflow.action.type = "EDIT_COMPLETE"
          /\ workflow.state.hasSignature = FALSE
    /\ Entered("download") =>
          /\ workflow.before.step = "sign"
          /\ workflow.action.type = "SIGN_COMPLETE"
    /\ workflow.state.step = "download" =>
          {"upload", "edit", "sign"} \subseteq workflow.visited
    /\ workflow.state.step = "sign" => {"upload", "edit"} \subseteq workflow.visited
    /\ (Entered("edit") \/ workflow.action.type = "UPLOAD_COMPLETE") =>
          /\ workflow.state.step = "edit"
          /\ workflow.state.isDirty = FALSE

\* The download step reached through edit and sign.
C27_Witness ==
    /\ Entered("download")
    /\ workflow.action.type = "SIGN_COMPLETE"
    /\ workflow.before.hasSignature
    /\ workflow.visited = {"upload", "edit", "sign", "download"}

\* The step before a step, the first one before itself.
PreviousStep(step) ==
    IF getStepIndex(step) = 1 THEN step
    ELSE WORKFLOW_STEPS[getStepIndex(step) - 1]

\* C28: GO_BACK moves the workflow to the previous step, from edit to
\* upload, from sign to edit and from download to sign, and changes nothing
\* in upload.
C28_GoBackToPreviousStep ==
    workflow.action.type = "GO_BACK" =>
        /\ workflow.state.step = PreviousStep(workflow.before.step)
        /\ workflow.before.step = "upload" => workflow.state = workflow.before

\* The step an action belongs to.
StepOf(type) ==
    CASE type \in {"UPLOAD_PROGRESS", "UPLOAD_ERROR", "UPLOAD_COMPLETE"} -> "upload"
      [] type \in {"UPDATE_CONTENT", "EDIT_COMPLETE"} -> "edit"
      [] type \in {"SIGNATURE_UPDATE", "SIGN_COMPLETE"} -> "sign"
      [] OTHER -> "any"

\* C29: an action dispatched outside the step it belongs to leaves the state
\* as it was; only RESET and GO_BACK may change the state in any step, and
\* RESET always yields the initial state.
C29_OnlyInOwnStep ==
    /\ (StepOf(workflow.action.type) \notin {"any", workflow.before.step}) =>
          workflow.state = workflow.before
    /\ (workflow.action.type \in {"UNKNOWN", "@@INIT"}) =>
          workflow.state = workflow.before
    /\ workflow.action.type = "RESET" =>
          workflow.state = [step |-> "upload", error |-> "null", progress |-> 0]

====
